---------------------------- MODULE Spec2Model ----------------------------
(***************************************************************************)
(* Model of the RAG backend services:                                      *)
(*   - QueryProcessorService.process_query (query_processor.py)            *)
(*   - VectorDBService.query_documents     (vector_db_service.py)          *)
(*   - DocumentProcessorService            (document_processor.py)         *)
(* Texts are sequences of one-character strings, an optional value is a    *)
(* sequence of length 0 (None) or 1.                                       *)
(***************************************************************************)
EXTENDS Integers, Sequences, FiniteSets, TLC

(***************************************************************************)
(* Bounds of the model                                                     *)
(***************************************************************************)
\* number of chunks held by the vector store
MaxStoreChunks == 4
\* distances reported by the store range over 0..MaxDistance
MaxDistance == 2
\* small values of n_results a caller passes (besides one above the floor)
MaxNResults == 2
\* thresholds compared by the monotonicity property range over 0..MaxThreshold
MaxThreshold == 3
\* longest text handed to the chunker on its own
MaxTextLen == 7
\* largest sentences_per_chunk handed to the chunker on its own
MaxSentencesPerChunk == 3
\* longest list of raw documents handed to process_documents
MaxDocs == 3
\* longest text handed to clean_text on its own
MaxCleanLen == 5
\* Document rows the database creates in one behaviour
MaxRecords == 2
\* upload and pipeline invocations in one behaviour
MaxStoreOps == 2
\* longest text handed to recursive_split
MaxSplitLen == 5
\* largest chunk_size handed to recursive_split
MaxChunkSize == 3
\* most rows of a CSV file, the header row included
MaxCsvRows == 2
\* most chunks in a batch handed to add_documents
MaxBatch == 2
\* upload requests running in one event loop
MaxUploads == 3

(***************************************************************************)
(* Optional values                                                         *)
(***************************************************************************)
None == <<>>

Some(x) == <<x>>

(***************************************************************************)
(* String helpers (Python str methods)                                     *)
(***************************************************************************)
\* characters str.strip() and the regex class \s treat as whitespace
Whitespace == {" ", "\n", "\t"}

RECURSIVE lstrip(_)
lstrip(s) ==
    IF s # <<>> /\ Head(s) \in Whitespace THEN lstrip(Tail(s)) ELSE s

RECURSIVE rstrip(_)
rstrip(s) ==
    IF s # <<>> /\ s[Len(s)] \in Whitespace
    THEN rstrip(SubSeq(s, 1, Len(s) - 1))
    ELSE s

\* str.strip()
strip(s) == rstrip(lstrip(s))

\* sub in s  (verbatim occurrence of sub inside s)
Contains(s, sub) ==
    \E i \in 1..(Len(s) - Len(sub) + 1) : SubSeq(s, i, i + Len(sub) - 1) = sub

(***************************************************************************)
(* Constants of query_processor.py                                         *)
(***************************************************************************)
\* "LLM_INTERNAL_NO_ANSWER_FLAG"
LLM_NO_ANSWER_RESPONSE ==
    <<"L","L","M","_","I","N","T","E","R","N","A","L","_","N","O","_","A",
      "N","S","W","E","R","_","F","L","A","G">>

\* distances are in units in which the threshold 1.0 is 1
RELEVANCE_THRESHOLD == 1

\* max(10, n_results): the oversampling floor
QUERY_FOR_COUNT_FLOOR == 10

\* "Error: Model not configured."
MSG_MODEL_NOT_CONFIGURED ==
    <<"E","r","r","o","r",":"," ","M","o","d","e","l"," ","n","o","t"," ",
      "c","o","n","f","i","g","u","r","e","d",".">>

\* "An error occurred while generating the answer."
MSG_SYNTHESIS_ERROR ==
    <<"A","n"," ","e","r","r","o","r"," ","o","c","c","u","r","r","e","d",
      " ","w","h","i","l","e"," ","g","e","n","e","r","a","t","i","n","g",
      " ","t","h","e"," ","a","n","s","w","e","r",".">>

\* "I'm sorry, I couldn't find an answer and my response generator is also offline."
MSG_GENERATOR_OFFLINE ==
    <<"I","'","m"," ","s","o","r","r","y",","," ","I"," ","c","o","u","l",
      "d","n","'","t"," ","f","i","n","d"," ","a","n"," ","a","n","s","w",
      "e","r"," ","a","n","d"," ","m","y"," ","r","e","s","p","o","n","s",
      "e"," ","g","e","n","e","r","a","t","o","r"," ","i","s"," ","a","l",
      "s","o"," ","o","f","f","l","i","n","e",".">>

\* "I'm sorry, an unexpected error occurred."
MSG_UNEXPECTED ==
    <<"I","'","m"," ","s","o","r","r","y",","," ","a","n"," ","u","n","e",
      "x","p","e","c","t","e","d"," ","e","r","r","o","r"," ","o","c","c",
      "u","r","r","e","d",".">>

\* "I'm sorry, I couldn't find an answer to your question."
MSG_NO_ANSWER ==
    <<"I","'","m"," ","s","o","r","r","y",","," ","I"," ","c","o","u","l",
      "d","n","'","t"," ","f","i","n","d"," ","a","n"," ","a","n","s","w",
      "e","r"," ","t","o"," ","y","o","u","r"," ","q","u","e","s","t","i",
      "o","n",".">>

(***************************************************************************)
(* The external capabilities: what they may answer                         *)
(***************************************************************************)
\* raw texts the language model may give as response.text
LLMTexts ==
    { <<>>,
      <<" ", "\n">>,
      <<"o", "k">>,
      LLM_NO_ANSWER_RESPONSE,
      <<" ">> \o LLM_NO_ANSWER_RESPONSE \o <<"\n">>,
      <<"n", "o", " ">> \o LLM_NO_ANSWER_RESPONSE }

\* the chunks the store holds, their documents and their texts
StoreIds == 1..MaxStoreChunks

DocIds == {"d1", "d2"}

DocIdOf(c) == IF c % 2 = 1 THEN "d1" ELSE "d2"

TextOf(c) == [i \in 1..c |-> "t"]

Distances == 0..MaxDistance

\* values of n_results a caller passes
NResultsValues == (0..MaxNResults) \cup {QUERY_FOR_COUNT_FLOOR + 1}

Max(a, b) == IF a >= b THEN a ELSE b

Min(a, b) == IF a <= b THEN a ELSE b

\* the elements of a set of numbers in ascending order
RECURSIVE SortedSeq(_)
SortedSeq(S) ==
    IF S = {} THEN <<>>
    ELSE LET m == CHOOSE x \in S : \A y \in S : x <= y
         IN  <<m>> \o SortedSeq(S \ {m})

\* What collection.query may return for n_results = k and a where-filter
\* (None or Some(set of doc ids)): at most k stored chunks that pass the
\* filter, nearest first, with the parallel lists documents, metadatas and
\* distances (the code does not rely on the lists having equal lengths).
ChromaQueryResults(k, where) ==
    LET eligible == {c \in StoreIds : where = None \/ DocIdOf(c) \in where[1]}
        Of(S) ==
            { [ids       |-> SortedSeq(S),
               documents |-> [i \in 1..nd |-> TextOf(SortedSeq(S)[i])],
               metadatas |-> [i \in 1..Cardinality(S) |->
                                 [doc_id |-> DocIdOf(SortedSeq(S)[i])]],
               distances |-> ds] :
              nd \in 0..Cardinality(S),
              ds \in UNION {[1..m -> Distances] : m \in 0..Cardinality(S)} }
    IN  UNION {Of(S) : S \in {T \in SUBSET eligible : Cardinality(T) <= k}}

(***************************************************************************)
(* VectorDBService.query_documents: result parsing                         *)
(***************************************************************************)
\* lines 131-151: one record per returned id; a list shorter than ids
\* leaves the field None
format_results(results) ==
    [i \in 1..Len(results.ids) |->
        [chunk_id   |-> results.ids[i],
         text_chunk |-> IF i <= Len(results.documents)
                        THEN Some(results.documents[i]) ELSE None,
         metadata   |-> IF i <= Len(results.metadatas)
                        THEN Some(results.metadatas[i]) ELSE None,
         distance   |-> IF i <= Len(results.distances)
                        THEN Some(results.distances[i]) ELSE None]]

\* lines 118-121: the where-filter handed to collection.query
filter_metadata(allowed_doc_ids) ==
    IF allowed_doc_ids # None /\ allowed_doc_ids[1] # {}
    THEN allowed_doc_ids ELSE None

(***************************************************************************)
(* QueryProcessorService: the retrieval filter and the context             *)
(***************************************************************************)
\* a filter that keeps the far candidates instead of the near ones
relevant_chunks_inverted(chunks, threshold) ==
    SelectSeq(chunks,
              LAMBDA chunk : chunk.distance # None
                             /\ chunk.distance[1] > threshold)

\* lines 119-122 with the threshold as a parameter
relevant_chunks(chunks, threshold) ==
    SelectSeq(chunks,
              LAMBDA chunk : chunk.distance # None
                             /\ chunk.distance[1] < threshold)

\* a filter that also keeps a distance equal to the threshold
truly_relevant_inclusive(chunks) ==
    SelectSeq(chunks,
              LAMBDA chunk : chunk.distance # None
                             /\ chunk.distance[1] <= RELEVANCE_THRESHOLD)

\* lines 119-122: truly_relevant_chunks
truly_relevant(chunks) == relevant_chunks(chunks, RELEVANCE_THRESHOLD)

\* Python slice s[:n]
SliceTo(s, n) ==
    IF n >= 0 THEN SubSeq(s, 1, Min(n, Len(s)))
    ELSE SubSeq(s, 1, Max(Len(s) + n, 0))

\* line 132 over all survivors, without the slice of line 131
context_texts_untruncated(chunks, n_results) ==
    [i \in 1..Len(chunks) |-> chunks[i].text_chunk]

\* lines 131-132: context_chunks_text
context_texts(chunks, n_results) ==
    [i \in 1..Len(SliceTo(chunks, n_results)) |->
        SliceTo(chunks, n_results)[i].text_chunk]

(***************************************************************************)
(* QueryProcessorService: the two language-model helpers.                  *)
(* outcome is what the model call does: <<"raise">> or <<"text", t>>.      *)
(* The result says whether the helper itself raised, the text it returned  *)
(* and the prompts it sent.                                                *)
(***************************************************************************)
LLMOutcomes == {<<"raise">>} \cup {<<"text", t>> : t \in LLMTexts}

\* _synthesize_answer letting a failed model call escape
synthesize_answer_unguarded(model, context_chunks, outcome) ==
    IF ~model
    THEN [raised |-> "none", text |-> MSG_MODEL_NOT_CONFIGURED, sent |-> <<>>]
    ELSE IF \E i \in 1..Len(context_chunks) : context_chunks[i] = None
    THEN [raised |-> "TypeError", text |-> <<>>, sent |-> <<>>]
    ELSE IF outcome[1] = "raise"
    THEN [raised |-> "Exception", text |-> <<>>,
          sent |-> <<[kind |-> "synthesis", context |-> context_chunks]>>]
    ELSE [raised |-> "none", text |-> strip(outcome[2]),
          sent |-> <<[kind |-> "synthesis", context |-> context_chunks]>>]

\* _synthesize_answer, lines 50-66
synthesize_answer(model, context_chunks, outcome) ==
    IF ~model
    THEN [raised |-> "none", text |-> MSG_MODEL_NOT_CONFIGURED, sent |-> <<>>]
    ELSE IF \E i \in 1..Len(context_chunks) : context_chunks[i] = None
    \* line 52: str.join over a None item, outside the try
    THEN [raised |-> "TypeError", text |-> <<>>, sent |-> <<>>]
    ELSE IF outcome[1] = "raise"
    THEN [raised |-> "none", text |-> MSG_SYNTHESIS_ERROR,
          sent |-> <<[kind |-> "synthesis", context |-> context_chunks]>>]
    ELSE [raised |-> "none", text |-> strip(outcome[2]),
          sent |-> <<[kind |-> "synthesis", context |-> context_chunks]>>]

\* _generate_helpful_failure_response without the except of lines 92-94
generate_helpful_failure_response_unguarded(model, failure_type, outcome) ==
    IF ~model
    THEN [raised |-> "none", text |-> MSG_GENERATOR_OFFLINE, sent |-> <<>>]
    ELSE IF failure_type \notin {"retrieval_failure", "synthesis_failure"}
    THEN [raised |-> "none", text |-> MSG_UNEXPECTED, sent |-> <<>>]
    ELSE IF outcome[1] = "raise"
    THEN [raised |-> "Exception", text |-> <<>>,
          sent |-> <<[kind |-> failure_type, context |-> <<>>]>>]
    ELSE [raised |-> "none", text |-> strip(outcome[2]),
          sent |-> <<[kind |-> failure_type, context |-> <<>>]>>]

\* _generate_helpful_failure_response, lines 68-94
generate_helpful_failure_response(model, failure_type, outcome) ==
    IF ~model
    THEN [raised |-> "none", text |-> MSG_GENERATOR_OFFLINE, sent |-> <<>>]
    ELSE IF failure_type \notin {"retrieval_failure", "synthesis_failure"}
    THEN [raised |-> "none", text |-> MSG_UNEXPECTED, sent |-> <<>>]
    ELSE IF outcome[1] = "raise"
    THEN [raised |-> "none", text |-> MSG_NO_ANSWER,
          sent |-> <<[kind |-> failure_type, context |-> <<>>]>>]
    ELSE [raised |-> "none", text |-> strip(outcome[2]),
          sent |-> <<[kind |-> failure_type, context |-> <<>>]>>]

(***************************************************************************)
(* DocumentProcessorService: cleaning strategies (regular expressions are  *)
(* modelled by what re.sub / re.split do to a sequence of characters)      *)
(***************************************************************************)
\* the characters of the look-behind class [.\-•:!?] of line 41
\* ("*" stands for the bullet character)
BreakPunctuation == {".", "-", "*", ":", "!", "?"}

\* length of the longest prefix of s made of whitespace
RECURSIVE WhitespaceRun(_)
WhitespaceRun(s) ==
    IF s # <<>> /\ Head(s) \in Whitespace
    THEN 1 + WhitespaceRun(Tail(s)) ELSE 0

\* line 39: re.sub(r'\n\s*\n', '\n', text).  At a newline the greedy \s*
\* backtracks to the last newline of the whitespace run that follows.
RECURSIVE collapse_blank_lines(_)
collapse_blank_lines(s) ==
    IF s = <<>> THEN <<>>
    ELSE LET rest == Tail(s)
             run  == WhitespaceRun(rest)
             ends == {p \in 1..run : rest[p] = "\n"}
         IN  IF Head(s) = "\n" /\ ends # {}
             THEN LET last == CHOOSE p \in ends : \A q \in ends : q <= p
                  IN  <<"\n">> \o
                      collapse_blank_lines(SubSeq(rest, last + 1, Len(rest)))
             ELSE <<Head(s)>> \o collapse_blank_lines(rest)

\* line 41 left out: every line break is kept
join_broken_lines_keep(s) == s

\* line 41: re.sub(r'(?<![.\-•:!?])\n', ' ', text)
join_broken_lines(s) ==
    [i \in 1..Len(s) |->
        IF s[i] = "\n" /\ (i = 1 \/ s[i - 1] \notin BreakPunctuation)
        THEN " " ELSE s[i]]

\* line 43: re.sub(r' {2,}', ' ', text)
RECURSIVE collapse_spaces(_)
collapse_spaces(s) ==
    IF s = <<>> THEN <<>>
    ELSE IF Len(s) >= 2 /\ s[1] = " " /\ s[2] = " "
    THEN collapse_spaces(Tail(s))
    ELSE <<Head(s)>> \o collapse_spaces(Tail(s))

\* lines 41 and 43 in the other order: spaces collapsed before the line
\* breaks are joined
clean_narrative_text_spaces_first(text) ==
    strip(join_broken_lines(collapse_spaces(collapse_blank_lines(text))))

\* _clean_narrative_text, lines 33-44
clean_narrative_text(text) ==
    strip(collapse_spaces(join_broken_lines(collapse_blank_lines(text))))

\* line 52 with the pattern of line 43: only runs of spaces are collapsed
collapse_whitespace_spaces_only(s) == collapse_spaces(s)

\* line 52: re.sub(r'\s+', ' ', text)
RECURSIVE collapse_whitespace(_)
collapse_whitespace(s) ==
    IF s = <<>> THEN <<>>
    ELSE IF Head(s) \in Whitespace
    THEN <<" ">> \o collapse_whitespace(lstrip(s))
    ELSE <<Head(s)>> \o collapse_whitespace(Tail(s))

\* _clean_structured_text, lines 46-53
clean_structured_text(text) == strip(collapse_whitespace(text))

\* lines 74-76 sending an unknown source_type to the structured strategy
clean_text_unknown_structured(text, source_type) ==
    IF text = <<>> THEN <<>>
    ELSE IF source_type \in {"pdf", "txt", "docx", "image"}
    THEN clean_narrative_text(text)
    ELSE clean_structured_text(text)

\* clean_text, lines 55-76; source_type is a string
clean_text(text, source_type) ==
    IF text = <<>> THEN <<>>
    ELSE IF source_type \in {"pdf", "txt", "docx", "image"}
    THEN clean_narrative_text(text)
    ELSE IF source_type \in {"csv", "excel"}
    THEN clean_structured_text(text)
    ELSE clean_narrative_text(text)

(***************************************************************************)
(* DocumentProcessorService.chunk_text_by_sentences                        *)
(***************************************************************************)
\* the look-behind class [.!?] of line 87
SentenceEnd == {".", "!", "?"}

\* line 87: re.split(r'(?<=[.!?])\s+', text); cur is the piece being read
RECURSIVE re_split_sentences(_, _)
re_split_sentences(s, cur) ==
    IF s = <<>> THEN <<cur>>
    ELSE IF /\ Head(s) \in Whitespace
            /\ cur # <<>>
            /\ cur[Len(cur)] \in SentenceEnd
    THEN <<cur>> \o re_split_sentences(lstrip(s), <<>>)
    ELSE re_split_sentences(Tail(s), Append(cur, Head(s)))

\* the sentence sequence of a text
sentences_of(text) == re_split_sentences(text, <<>>)

\* " ".join(parts)
RECURSIVE join_spaces(_)
join_spaces(parts) ==
    IF parts = <<>> THEN <<>>
    ELSE IF Len(parts) = 1 THEN parts[1]
    ELSE parts[1] \o <<" ">> \o join_spaces(Tail(parts))

\* the loop of lines 89-94 that forgets to close the last, shorter window
RECURSIVE chunk_loop_full_windows_only(_, _, _, _)
chunk_loop_full_windows_only(sentences, i, current, n) ==
    IF i > Len(sentences) THEN <<>>
    ELSE LET cur == Append(current, sentences[i])
         IN  IF i % n = 0
             THEN <<join_spaces(cur)>> \o
                  chunk_loop_full_windows_only(sentences, i + 1, <<>>, n)
             ELSE chunk_loop_full_windows_only(sentences, i + 1, cur, n)

\* lines 89-94: i is the 1-based position, so (i + 1) % n of the code,
\* which counts from 0, is i % n here
RECURSIVE chunk_loop(_, _, _, _)
chunk_loop(sentences, i, current, n) ==
    IF i > Len(sentences) THEN <<>>
    ELSE LET cur == Append(current, sentences[i])
         IN  IF i % n = 0 \/ i = Len(sentences)
             THEN <<join_spaces(cur)>> \o
                  chunk_loop(sentences, i + 1, <<>>, n)
             ELSE chunk_loop(sentences, i + 1, cur, n)

\* chunk_text_by_sentences, lines 79-94, as the list of yielded chunks
chunk_text_by_sentences(text, sentences_per_chunk) ==
    IF text = <<>> THEN <<>>
    ELSE chunk_loop(sentences_of(text), 1, <<>>, sentences_per_chunk)

\* default of sentences_per_chunk (line 79), used by line 156
DEFAULT_SENTENCES_PER_CHUNK == 5

(***************************************************************************)
(* chunk_text_by_sentences applied on its own (specification SpecChunk)    *)
(***************************************************************************)
VARIABLES
    c_text,                \* the text handed to chunk_text_by_sentences
    c_sentences_per_chunk, \* its sentences_per_chunk argument
    c_chunks               \* Some(list of the yielded chunks) or None

cvars == <<c_text, c_sentences_per_chunk, c_chunks>>

ChunkAlphabet == {"a", ".", " "}

ChunkTexts == UNION {[1..m -> ChunkAlphabet] : m \in 0..MaxTextLen}

(***************************************************************************)
(* State of one process_documents invocation (specification SpecDocs)      *)
(***************************************************************************)
VARIABLES
    raw_documents,         \* the argument: a list of raw documents
    doc_index,             \* 1-based position of the loop of line 137
    all_processed_chunks,  \* the list built by lines 136-181
    embedding_requests,    \* the batches sent to genai.embed_content
    doc_outcomes,          \* per document handled: skipped/ok/fail/short
    pd_pc,                 \* "idle", "loop" or "done"
    pd_result,             \* Some(returned list) or None
    pd_raised              \* exception leaving process_documents, or "none"

dvars == <<raw_documents, doc_index, all_processed_chunks,
           embedding_requests, doc_outcomes, pd_pc, pd_result, pd_raised>>

(***************************************************************************)
(* clean_text applied on its own (specification SpecClean)                 *)
(***************************************************************************)
VARIABLES
    n_text,         \* the text handed to clean_text
    n_source_type,  \* its source_type argument
    n_cleaned,      \* Some(clean_text(n_text, n_source_type)) or None
    n_recleaned     \* Some(clean_text of n_cleaned) or None

nvars == <<n_text, n_source_type, n_cleaned, n_recleaned>>

CleanAlphabet == {"a", ".", " ", "\n", "\t"}

CleanTexts == UNION {[1..m -> CleanAlphabet] : m \in 0..MaxCleanLen}

\* the source types of lines 67 and 70
NARRATIVE_SOURCE_TYPES == {"pdf", "txt", "docx", "image"}

STRUCTURED_SOURCE_TYPES == {"csv", "excel"}

SourceTypes == NARRATIVE_SOURCE_TYPES \cup STRUCTURED_SOURCE_TYPES

\* source types outside the two lists of lines 70-72: "narrative" is the
\* default process_documents uses when the metadata has no source_type
\* (line 141), "html" a tag no ingestor of the repository writes
UNKNOWN_SOURCE_TYPES == {"narrative", "html"}

AnySourceTypes == SourceTypes \cup UNKNOWN_SOURCE_TYPES

(***************************************************************************)
(* The vector store and the document table (specification SpecStore)       *)
(***************************************************************************)
VARIABLES
    collection,    \* the records the Chroma collection holds, one per id
    db_documents,  \* the rows of the documents table
    next_record,   \* number of the next Document row
    handed,        \* the id lists handed to add_documents, in order
    last_op,       \* the last handler or pipeline run, with the collection
                   \* it started from
    store_ops      \* number of upload and pipeline runs so far

svars == <<collection, db_documents, next_record, handed, last_op,
           store_ops>>

\* the store variables other than the collection
store_rest == <<db_documents, next_record, handed, last_op, store_ops>>

(***************************************************************************)
(* recursive_split applied on its own (specification SpecSplit)            *)
(***************************************************************************)
VARIABLES
    sp_text,        \* the text handed to recursive_split
    sp_chunk_size,  \* its chunk_size argument
    sp_result,      \* Some(the returned list) or None
    sp_raised       \* exception leaving recursive_split, or "none"

pvars == <<sp_text, sp_chunk_size, sp_result, sp_raised>>

(***************************************************************************)
(* A CSV file ingested and then processed (specification SpecCsv)          *)
(***************************************************************************)
VARIABLES
    csv_rows,      \* the rows csv.reader yields for the file, cells as texts
    csv_raw_doc,   \* Some(the raw document ingest_document returns) or None
    csv_strategy,  \* the strategy clean_text applied, or "none"
    csv_cleaned    \* Some(the cleaned text) or None

ivars == <<csv_rows, csv_raw_doc, csv_strategy, csv_cleaned>>

(***************************************************************************)
(* One add_documents call and the queries running beside it                *)
(* (specification SpecAdd)                                                 *)
(***************************************************************************)
VARIABLES
    a_collection,  \* the records the Chroma collection holds
    a_batch,       \* the documents argument of add_documents
    a_pc,          \* "idle", "validated" or "done"
    a_handed,      \* Some(the metadatas list of line 93) or None
    a_pending,     \* the collection.add calls still to be made
    a_raised,      \* exception leaving add_documents, or "none"
    a_before,      \* the collection when add_documents was called
    a_seen         \* the collections that concurrent queries observed

avars == <<a_collection, a_batch, a_pc, a_handed, a_pending, a_raised,
           a_before, a_seen>>

(***************************************************************************)
(* Upload requests sharing the upload directory (specification SpecUpload) *)
(***************************************************************************)
VARIABLES
    up_filename,  \* file.filename of each upload
    up_handler,   \* the handler serving each upload
    up_pc,        \* where each upload stands: "start", "commit", "refresh"
                  \* or "done"
    up_ingested,  \* Some(what the ingestor read) or None, for each upload
    temp_files,   \* for each path of the upload directory the upload whose
                  \* bytes the file holds, 0 when there is no file
    up_shared     \* an upload saved over the file of an upload still running

uvars == <<up_filename, up_handler, up_pc, up_ingested, temp_files,
           up_shared>>

(***************************************************************************)
(* State of one process_query invocation                                   *)
(***************************************************************************)
VARIABLES
    chat_model,            \* self.chat_model is set (TRUE) or None (FALSE)
    pc,                    \* position inside process_query
    call,                  \* the call: keyword names, n_results, allowed_doc_ids
    embed_calls,           \* query-embedding calls made
    store_queries,         \* similarity queries issued: <<n_results, where>>
    initial_chunks_data,   \* what query_documents returned
    truly_relevant_chunks, \* survivors of the distance filter
    context_chunks_text,   \* texts handed to _synthesize_answer
    llm_response,          \* Some(text returned by _synthesize_answer) or None
    failure_type,          \* argument of _generate_helpful_failure_response
    prompts,               \* prompts sent to the chat model, in order
    faults,                \* the external calls that failed in this query
    stages,                \* the stages this query has entered, in order
    result,                \* Some(returned string) or None
    raised                 \* exception leaving process_query, or "none"

qvars == <<chat_model, pc, call, embed_calls, store_queries,
           initial_chunks_data, truly_relevant_chunks, context_chunks_text,
           llm_response, failure_type, prompts, faults, stages, result,
           raised>>

\* parameters of process_query (line 97)
process_query_params == {"query_text", "n_results"}

\* the keyword sets of the call sites: query_api.py 25-28 and the
\* query_processor.py test harness pass query_text and n_results,
\* interactions_api.py 172-177 passes four keywords with n_results = 5
Calls ==
    { [kwargs |-> {"query_text", "n_results"}, n_results |-> n,
       allowed_doc_ids |-> None] : n \in NResultsValues }
    \cup
    { [kwargs |-> {"query_text", "n_results", "chat_history",
                   "allowed_doc_ids"},
       n_results |-> 5, allowed_doc_ids |-> Some(a)] : a \in SUBSET DocIds }

\* the variables a query leaves alone
non_query_vars == <<cvars, dvars, nvars, svars, pvars, ivars, avars, uvars>>

QInit ==
    /\ chat_model \in BOOLEAN
    /\ pc = "idle"
    /\ call = [kwargs |-> {}, n_results |-> 0, allowed_doc_ids |-> None]
    /\ embed_calls = 0
    /\ store_queries = <<>>
    /\ initial_chunks_data = <<>>
    /\ truly_relevant_chunks = <<>>
    /\ context_chunks_text = <<>>
    /\ llm_response = None
    /\ failure_type = "none"
    /\ prompts = <<>>
    /\ faults = {}
    /\ stages = <<>>
    /\ result = None
    /\ raised = "none"

\* The caller invokes process_query; Python binds the keywords to the
\* parameters of line 97 and raises TypeError for a keyword it does not know.
ProcessQuery_Call ==
    /\ pc = "idle"
    /\ \E c \in Calls :
         /\ call' = c
         /\ IF c.kwargs \subseteq process_query_params
            THEN /\ pc' = "embedding"
                 /\ raised' = "none"
                 /\ stages' = Append(stages, "EMBEDDING_QUERY")
            ELSE /\ pc' = "done"
                 /\ raised' = "TypeError"
                 /\ UNCHANGED stages
    /\ UNCHANGED <<chat_model, embed_calls, store_queries,
                   initial_chunks_data, truly_relevant_chunks,
                   context_chunks_text, llm_response, failure_type, prompts,
                   faults, result>>
    /\ UNCHANGED non_query_vars

\* a failed embedding call that is swallowed: the query goes on
after_embedding_swallowed(ok) == [pc |-> "retrieving", raised |-> "none"]

\* where line 101 leaves the query: with the embedding at line 106, or out
\* of process_query with the LLMError of line 48, re-raised by lines 144-145
after_embedding(ok) ==
    IF ok THEN [pc |-> "retrieving", raised |-> "none"]
    ELSE [pc |-> "done", raised |-> "LLMError"]

\* line 101, _generate_query_embedding (lines 41-48): any failure becomes
\* LLMError, which lines 144-145 re-raise
GenerateQueryEmbedding ==
    /\ pc = "embedding"
    /\ embed_calls' = embed_calls + 1
    /\ \E ok \in BOOLEAN :
         /\ pc' = after_embedding(ok).pc
         /\ raised' = after_embedding(ok).raised
         /\ faults' = IF ok THEN faults ELSE faults \cup {"embedding"}
         /\ stages' = IF after_embedding(ok).pc = "retrieving"
                       THEN Append(stages, "RETRIEVING") ELSE stages
    /\ UNCHANGED <<chat_model, call, store_queries, initial_chunks_data,
                   truly_relevant_chunks, context_chunks_text, llm_response,
                   failure_type, prompts, result>>
    /\ UNCHANGED non_query_vars

\* line 106 without the floor: the store is asked for n_results candidates
query_for_count_as_requested(n_results) == n_results

\* line 106
query_for_count(n_results) == Max(QUERY_FOR_COUNT_FLOOR, n_results)

\* lines 109-112: process_query passes query_embedding and n_results only,
\* so query_documents sees its default allowed_doc_ids = None (line 105)
allowed_doc_ids_passed == None

\* lines 114-116 alone, without the check of lines 126-128
retrieval_failed_only_when_empty(chunks) == chunks = <<>>

\* lines 114-116 and 126-128: the two returns of the retrieval-failure
\* message
retrieval_failed(chunks) == chunks = <<>> \/ truly_relevant(chunks) = <<>>

\* collection.query (vector_db_service.py 124-129) reads the collection and
\* leaves its records as they are
store_after_query(coll) == coll

\* lines 106-132.  query_documents (vector_db_service.py 111-155): an
\* allowed_doc_ids that is given and empty returns [] without a store
\* query; otherwise collection.query is issued, and its failure
\* (VectorDBError) is wrapped by lines 146-148 of process_query.  Then the
\* distance filter, and either a failure branch or the synthesis context.
QueryDocuments ==
    /\ pc = "retrieving"
    /\ LET k == query_for_count(call.n_results)
           allowed == allowed_doc_ids_passed
           where == filter_metadata(allowed)
           AfterRetrieval(chunks) ==
               /\ initial_chunks_data' = chunks
               /\ truly_relevant_chunks' = truly_relevant(chunks)
               /\ IF retrieval_failed(chunks)
                  THEN /\ failure_type' = "retrieval_failure"
                       /\ context_chunks_text' = <<>>
                       /\ pc' = "failure_response"
                       \* the filter of line 119 runs only past line 116
                       /\ stages' = stages \o
                              (IF chunks = <<>> THEN <<>>
                               ELSE <<"FILTERING">>) \o
                              <<"RETRIEVAL_FAILURE">>
                  ELSE /\ failure_type' = "none"
                       /\ context_chunks_text' =
                              context_texts(truly_relevant(chunks),
                                            call.n_results)
                       /\ pc' = "synthesizing"
                       /\ stages' = stages \o <<"FILTERING", "SYNTHESIZING">>
               /\ raised' = "none"
               /\ UNCHANGED faults
       IN  IF allowed # None /\ allowed[1] = {}
           THEN /\ UNCHANGED store_queries
                /\ AfterRetrieval(<<>>)
           ELSE /\ store_queries' = Append(store_queries, <<k, where>>)
                /\ \/ /\ pc' = "done"
                      /\ raised' = "QueryProcessingError"
                      /\ faults' = faults \cup {"store"}
                      /\ UNCHANGED <<initial_chunks_data,
                                     truly_relevant_chunks,
                                     context_chunks_text, failure_type,
                                     stages>>
                   \/ \E r \in ChromaQueryResults(k, where) :
                        AfterRetrieval(format_results(r))
    /\ collection' = store_after_query(collection)
    /\ UNCHANGED <<chat_model, call, embed_calls, llm_response, prompts,
                   result>>
    /\ UNCHANGED <<cvars, dvars, nvars, store_rest, pvars, ivars, avars,
                   uvars>>

\* lines 134-142: _synthesize_answer, then the sentinel comparison
SynthesizeAnswer ==
    /\ pc = "synthesizing"
    /\ \E outcome \in LLMOutcomes :
         LET r == synthesize_answer(chat_model, context_chunks_text, outcome)
         IN  /\ prompts' = prompts \o r.sent
             /\ faults' = IF outcome[1] = "raise" /\ r.sent # <<>>
                           THEN faults \cup {"synthesis"} ELSE faults
             /\ IF r.raised # "none"
                \* lines 146-148
                THEN /\ raised' = "QueryProcessingError"
                     /\ pc' = "done"
                     /\ UNCHANGED <<llm_response, failure_type, result,
                                    stages>>
                ELSE /\ llm_response' = Some(r.text)
                     /\ raised' = "none"
                     /\ IF r.text = LLM_NO_ANSWER_RESPONSE
                        THEN /\ failure_type' = "synthesis_failure"
                             /\ pc' = "failure_response"
                             /\ stages' =
                                    Append(stages, "SYNTHESIS_FAILURE")
                             /\ UNCHANGED result
                        ELSE /\ result' = Some(r.text)
                             /\ pc' = "done"
                             /\ stages' = Append(stages, "DONE")
                             /\ UNCHANGED failure_type
    /\ UNCHANGED <<chat_model, call, embed_calls, store_queries,
                   initial_chunks_data, truly_relevant_chunks,
                   context_chunks_text>>
    /\ UNCHANGED non_query_vars

\* the failure message of a failed retrieval not returned: the query goes
\* on to the synthesis
after_failure_response_goes_on(failure) ==
    IF failure = "retrieval_failure" THEN "synthesizing" ELSE "done"

\* lines 116, 128 and 139: the failure message is returned, which ends
\* process_query
after_failure_response(failure) == "done"

\* lines 116, 128, 139: return await _generate_helpful_failure_response(..)
GenerateHelpfulFailureResponse ==
    /\ pc = "failure_response"
    /\ \E outcome \in LLMOutcomes :
         LET r == generate_helpful_failure_response(chat_model, failure_type,
                                                    outcome)
         IN  /\ prompts' = prompts \o r.sent
             /\ faults' = IF outcome[1] = "raise" /\ r.sent # <<>>
                           THEN faults \cup {"failure_message"} ELSE faults
             /\ IF r.raised # "none"
                \* lines 146-148
                THEN /\ raised' = "QueryProcessingError"
                     /\ UNCHANGED <<result, stages>>
                ELSE /\ result' = Some(r.text)
                     /\ stages' = Append(stages, "DONE")
                     /\ UNCHANGED raised
    /\ pc' = after_failure_response(failure_type)
    /\ UNCHANGED <<chat_model, call, embed_calls, store_queries,
                   initial_chunks_data, truly_relevant_chunks,
                   context_chunks_text, llm_response, failure_type>>
    /\ UNCHANGED non_query_vars

QNext ==
    \/ ProcessQuery_Call
    \/ GenerateQueryEmbedding
    \/ QueryDocuments
    \/ SynthesizeAnswer
    \/ GenerateHelpfulFailureResponse

\* the query path at rest
QIdle ==
    /\ chat_model = TRUE
    /\ pc = "off"
    /\ call = [kwargs |-> {}, n_results |-> 0, allowed_doc_ids |-> None]
    /\ embed_calls = 0
    /\ store_queries = <<>>
    /\ initial_chunks_data = <<>>
    /\ truly_relevant_chunks = <<>>
    /\ context_chunks_text = <<>>
    /\ llm_response = None
    /\ failure_type = "none"
    /\ prompts = <<>>
    /\ faults = {}
    /\ stages = <<>>
    /\ result = None
    /\ raised = "none"

(***************************************************************************)
(* The chunker on its own                                                  *)
(***************************************************************************)
CInit ==
    /\ c_text \in ChunkTexts
    /\ c_sentences_per_chunk \in 1..MaxSentencesPerChunk
    /\ c_chunks = None

CIdle ==
    /\ c_text = <<>>
    /\ c_sentences_per_chunk = DEFAULT_SENTENCES_PER_CHUNK
    /\ c_chunks = Some(<<>>)

\* list(self.chunk_text_by_sentences(text, sentences_per_chunk))
ChunkTextBySentences ==
    /\ c_chunks = None
    /\ c_chunks' =
           Some(chunk_text_by_sentences(c_text, c_sentences_per_chunk))
    /\ UNCHANGED <<c_text, c_sentences_per_chunk>>
    /\ UNCHANGED <<qvars, dvars, nvars, svars, pvars, ivars, avars, uvars>>

(***************************************************************************)
(* The normalizer on its own                                               *)
(***************************************************************************)
NInit ==
    /\ n_text \in CleanTexts
    /\ n_source_type \in AnySourceTypes
    /\ n_cleaned = None
    /\ n_recleaned = None

NIdle ==
    /\ n_text = <<>>
    /\ n_source_type = "txt"
    /\ n_cleaned = Some(<<>>)
    /\ n_recleaned = Some(<<>>)

\* cleaned_text = self.clean_text(raw_text, source_type)
CleanText ==
    /\ n_cleaned = None
    /\ n_cleaned' = Some(clean_text(n_text, n_source_type))
    /\ UNCHANGED <<n_text, n_source_type, n_recleaned>>
    /\ UNCHANGED <<qvars, cvars, dvars, svars, pvars, ivars, avars, uvars>>

\* clean_text applied to a text that clean_text produced
CleanTextAgain ==
    /\ n_cleaned # None
    /\ n_recleaned = None
    /\ n_recleaned' = Some(clean_text(n_cleaned[1], n_source_type))
    /\ UNCHANGED <<n_text, n_source_type, n_cleaned>>
    /\ UNCHANGED <<qvars, cvars, dvars, svars, pvars, ivars, avars, uvars>>

(***************************************************************************)
(* process_documents                                                       *)
(***************************************************************************)
\* a Python dict as a function from its keys
DictGet(d, key, default) == IF key \in DOMAIN d THEN d[key] ELSE default

\* {**metadata, "chunk_number": chunk_index}, lines 171-174
chunk_metadata(metadata, chunk_index) ==
    [k \in DOMAIN metadata \cup {"chunk_number"} |->
        IF k = "chunk_number" THEN chunk_index ELSE metadata[k]]

EmptyDict == [k \in {} |-> ""]

\* "a. b. c. d. e. f."
TEXT_SIX_SENTENCES ==
    <<"a","."," ","b","."," ","c","."," ","d","."," ","e","."," ","f",".">>

\* "a,b\n\n\nc , d"
TEXT_CSV == <<"a",",","b","\n","\n","\n","c"," ",","," ","d">>

\* "x\ny."
TEXT_BROKEN_LINE == <<"x","\n","y",".">>

\* " \n "
TEXT_BLANK == <<" ","\n"," ">>

\* raw documents as the ingestors and callers build them: doc_id and text
\* may be missing (None) or empty, metadata may lack source_type
RawDocuments ==
    { [doc_id |-> Some("d1"), text |-> Some(TEXT_SIX_SENTENCES),
       metadata |-> [source_type |-> "txt", filename |-> "f1"]],
      [doc_id |-> Some("d2"), text |-> Some(TEXT_CSV),
       metadata |-> [source_type |-> "csv", filename |-> "f2"]],
      [doc_id |-> Some("d3"), text |-> Some(TEXT_BROKEN_LINE),
       metadata |-> EmptyDict],
      [doc_id |-> None, text |-> Some(TEXT_BROKEN_LINE),
       metadata |-> [source_type |-> "txt", filename |-> "f4"]],
      [doc_id |-> Some(""), text |-> Some(TEXT_BROKEN_LINE),
       metadata |-> [source_type |-> "txt", filename |-> "f7"]],
      [doc_id |-> Some("d5"), text |-> Some(TEXT_BLANK),
       metadata |-> [filename |-> "f5"]],
      [doc_id |-> Some("d6"), text |-> None,
       metadata |-> [source_type |-> "pdf", filename |-> "f6"]] }

RawDocumentLists == UNION {[1..m -> RawDocuments] : m \in 0..MaxDocs}

\* line 143, not doc_id: the id is missing or the empty string
has_doc_id(doc) == doc.doc_id # None /\ doc.doc_id[1] # ""

\* line 143, not raw_text: the text is missing or empty
has_text(doc) == doc.text # None /\ doc.text[1] # <<>>

\* line 141
source_type_of(doc) == DictGet(doc.metadata, "source_type", "narrative")

\* lines 150-156: the chunk texts of a document
text_chunks_of(doc) ==
    chunk_text_by_sentences(clean_text(doc.text[1], source_type_of(doc)),
                            DEFAULT_SENTENCES_PER_CHUNK)

\* lines 143-159: the document is skipped before any embedding call
skipped_before_embedding(doc) ==
    \/ ~has_doc_id(doc)
    \/ ~has_text(doc)
    \/ clean_text(doc.text[1], source_type_of(doc)) = <<>>
    \/ text_chunks_of(doc) = <<>>

\* what genai.embed_content does with a batch (get_embeddings, 97-122):
\* "fail" raises (LLMError), "ok" gives one vector per text, "short" gives
\* a list with one vector less than texts
EmbedOutcomes == {"ok", "fail", "short"}

embeddings_returned(texts, outcome) ==
    IF outcome = "ok"
    THEN [i \in 1..Len(texts) |-> [vector_of |-> texts[i]]]
    ELSE [i \in 1..(Len(texts) - 1) |-> [vector_of |-> texts[i]]]

\* lines 169-181 for one document, given its embeddings
assembled_chunks(doc, chunk_embeddings) ==
    [i \in 1..Len(text_chunks_of(doc)) |->
        [chunk_id   |-> <<doc.doc_id[1], "_chunk_", i - 1>>,
         doc_id     |-> doc.doc_id[1],
         text_chunk |-> text_chunks_of(doc)[i],
         embedding  |-> chunk_embeddings[i],
         metadata   |-> chunk_metadata(doc.metadata, i - 1)]]

\* an embedding failure that ends the loop instead of skipping the document
index_after_embedding_failure_break(index, count) == count + 1

\* lines 164-166: continue with the next document
index_after_embedding_failure(index, count) == index + 1

\* process_documents writing the chunks it assembled to the store
store_after_processing_writes(coll, chunks) ==
    coll \cup {[chunk_id   |-> chunks[i].chunk_id,
                text_chunk |-> chunks[i].text_chunk,
                embedding  |-> chunks[i].embedding,
                metadata   |-> chunks[i].metadata] : i \in 1..Len(chunks)}

\* lines 125-184 hold no reference to the vector store: the chunks are
\* returned to the caller and the collection stays as it is
store_after_processing(coll, chunks) == coll

DInit ==
    /\ raw_documents \in RawDocumentLists
    /\ doc_index = 1
    /\ all_processed_chunks = <<>>
    /\ embedding_requests = <<>>
    /\ doc_outcomes = <<>>
    /\ pd_pc = "loop"
    /\ pd_result = None
    /\ pd_raised = "none"

DIdle ==
    /\ raw_documents = <<>>
    /\ doc_index = 1
    /\ all_processed_chunks = <<>>
    /\ embedding_requests = <<>>
    /\ doc_outcomes = <<>>
    /\ pd_pc = "idle"
    /\ pd_result = None
    /\ pd_raised = "none"

\* one pass of the loop of lines 137-181
ProcessDocument ==
    /\ pd_pc = "loop"
    /\ doc_index <= Len(raw_documents)
    /\ LET doc == raw_documents[doc_index]
       IN  IF skipped_before_embedding(doc)
           THEN /\ doc_index' = doc_index + 1
                /\ doc_outcomes' = Append(doc_outcomes, "skipped")
                /\ UNCHANGED <<all_processed_chunks, embedding_requests,
                               pd_pc, pd_raised>>
           ELSE \E outcome \in EmbedOutcomes :
                /\ embedding_requests' =
                       Append(embedding_requests, text_chunks_of(doc))
                /\ doc_outcomes' = Append(doc_outcomes, outcome)
                /\ IF outcome = "fail"
                   THEN /\ doc_index' = index_after_embedding_failure(
                                            doc_index, Len(raw_documents))
                        /\ UNCHANGED <<all_processed_chunks, pd_pc,
                                       pd_raised>>
                   ELSE IF outcome = "short"
                   \* line 179: chunk_embeddings[chunk_index] is out of range
                   THEN /\ pd_raised' = "IndexError"
                        /\ pd_pc' = "done"
                        /\ UNCHANGED <<doc_index, all_processed_chunks>>
                   ELSE /\ all_processed_chunks' =
                               all_processed_chunks \o
                               assembled_chunks(doc,
                                   embeddings_returned(text_chunks_of(doc),
                                                       outcome))
                        /\ doc_index' = doc_index + 1
                        /\ UNCHANGED <<pd_pc, pd_raised>>
    /\ collection' = store_after_processing(collection, all_processed_chunks')
    /\ UNCHANGED <<raw_documents, pd_result>>
    /\ UNCHANGED <<qvars, cvars, nvars, store_rest, pvars, ivars, avars,
                   uvars>>

\* lines 183-184
ProcessDocuments_Return ==
    /\ pd_pc = "loop"
    /\ doc_index > Len(raw_documents)
    /\ pd_result' = Some(all_processed_chunks)
    /\ pd_pc' = "done"
    /\ UNCHANGED <<raw_documents, doc_index, all_processed_chunks,
                   embedding_requests, doc_outcomes, pd_raised>>
    /\ collection' = store_after_processing(collection, all_processed_chunks)
    /\ UNCHANGED <<qvars, cvars, nvars, store_rest, pvars, ivars, avars,
                   uvars>>

(***************************************************************************)
(* The character-budget splitter of src/src/splitter.py                    *)
(***************************************************************************)
\* line 4
separators == << <<"\n", "\n">>, <<"\n">>, <<".", " ">>, <<" ">> >>

IsPrefix(sub, s) == Len(sub) <= Len(s) /\ SubSeq(s, 1, Len(sub)) = sub

\* text.split(sep), line 9: the pieces between the occurrences of sep,
\* found from left to right without overlap
RECURSIVE str_split(_, _, _)
str_split(s, sep, cur) ==
    IF s = <<>> THEN <<cur>>
    ELSE IF IsPrefix(sep, s)
    THEN <<cur>> \o str_split(SubSeq(s, Len(sep) + 1, Len(s)), sep, <<>>)
    ELSE str_split(Tail(s), sep, Append(cur, Head(s)))

\* lines 13-21: the pieces are packed into chunks of at most chunk_size
\* characters, each piece followed by the separator
RECURSIVE pack_parts(_, _, _, _)
pack_parts(parts, current_chunk, sep, chunk_size) ==
    IF parts = <<>>
    THEN (IF current_chunk # <<>> THEN <<strip(current_chunk)>> ELSE <<>>)
    ELSE IF Len(current_chunk) + Len(Head(parts)) + Len(sep) <= chunk_size
    THEN pack_parts(Tail(parts), current_chunk \o Head(parts) \o sep, sep,
                    chunk_size)
    ELSE <<strip(current_chunk)>> \o
         pack_parts(Tail(parts), Head(parts) \o sep, sep, chunk_size)

\* line 23
all_fit(chunks, chunk_size) ==
    \A i \in 1..Len(chunks) : Len(chunks[i]) <= chunk_size

\* the loop of lines 5-24 from the separators seps on; chunks is None while
\* the name chunks is unbound, Some(list) afterwards
RECURSIVE split_on_separators(_, _, _, _)
split_on_separators(text, seps, chunks, chunk_size) ==
    IF seps = <<>> THEN chunks
    ELSE IF ~Contains(text, Head(seps))
    THEN split_on_separators(text, Tail(seps), chunks, chunk_size)
    ELSE LET packed == pack_parts(str_split(text, Head(seps), <<>>), <<>>,
                                  Head(seps), chunk_size)
         IN  IF all_fit(packed, chunk_size) THEN Some(packed)
             ELSE split_on_separators(text, Tail(seps), Some(packed),
                                      chunk_size)

\* merged[-chunk_size:] for a positive chunk_size
last_chars(s, n) == IF Len(s) > n THEN SubSeq(s, Len(s) - n + 1, Len(s)) ELSE s

\* lines 26-32: each chunk is joined to the one before it and cut to its
\* last chunk_size characters
overlapped_chunks(chunks, chunk_size) ==
    [i \in 1..Len(chunks) |->
        strip(last_chars(IF i = 1 THEN chunks[1]
                         ELSE chunks[i - 1] \o <<" ">> \o chunks[i],
                         chunk_size))]

\* recursive_split, lines 3-34: when no separator occurs in the text the
\* name chunks is never bound and line 27 raises UnboundLocalError
recursive_split(text, chunk_size) ==
    LET chunks == split_on_separators(text, separators, None, chunk_size)
    IN  IF chunks = None
        THEN [raised |-> "UnboundLocalError", chunks |-> <<>>]
        ELSE [raised |-> "none",
              chunks |-> overlapped_chunks(chunks[1], chunk_size)]

SplitAlphabet == {"a", ".", " ", "\n"}

SplitTexts == UNION {[1..m -> SplitAlphabet] : m \in 0..MaxSplitLen}

PInit ==
    /\ sp_text \in SplitTexts
    /\ sp_chunk_size \in 1..MaxChunkSize
    /\ sp_result = None
    /\ sp_raised = "none"

PIdle ==
    /\ sp_text = <<>>
    /\ sp_chunk_size = 3500
    /\ sp_result = Some(<<>>)
    /\ sp_raised = "none"

\* split_documents, lines 36-42, for one document:
\* recursive_split(text, chunk_size, chunk_overlap)
RecursiveSplit ==
    /\ sp_result = None
    /\ sp_raised = "none"
    /\ LET r == recursive_split(sp_text, sp_chunk_size)
       IN  IF r.raised # "none"
           THEN sp_raised' = r.raised /\ UNCHANGED sp_result
           ELSE sp_result' = Some(r.chunks) /\ UNCHANGED sp_raised
    /\ UNCHANGED <<sp_text, sp_chunk_size>>
    /\ UNCHANGED <<qvars, cvars, dvars, nvars, svars, ivars, avars, uvars>>

(***************************************************************************)
(* CSVIngestor (document_ingestor.py 103-219) followed by the cleaning     *)
(* step of process_documents                                               *)
(***************************************************************************)
\* sep.join(parts)
RECURSIVE str_join(_, _)
str_join(sep, parts) ==
    IF parts = <<>> THEN <<>>
    ELSE IF Len(parts) = 1 THEN parts[1]
    ELSE parts[1] \o sep \o str_join(sep, Tail(parts))

\* line 175: the cells of a row that are not blank, stripped
RECURSIVE non_blank_cells(_)
non_blank_cells(row) ==
    IF row = <<>> THEN <<>>
    ELSE IF Head(row) # <<>> /\ strip(Head(row)) # <<>>
    THEN <<strip(Head(row))>> \o non_blank_cells(Tail(row))
    ELSE non_blank_cells(Tail(row))

\* line 175
row_text(row) == str_join(<<",", " ">>, non_blank_cells(row))

\* lines 173-178: the texts of the data rows that are not blank
RECURSIVE data_row_texts(_)
data_row_texts(rows) ==
    IF rows = <<>> THEN <<>>
    ELSE IF row_text(Head(rows)) # <<>>
    THEN <<row_text(Head(rows))>> \o data_row_texts(Tail(rows))
    ELSE data_row_texts(Tail(rows))

CSV_FILENAME == "c.csv"

\* os.path.splitext(os.path.basename(file_path))[0], lines 165 and 186
CSV_STEM == "c"

\* _read_and_parse_csv, lines 126-190: the text and the metadata of a file
\* whose rows are rows; only the branch of the empty file (159-170) writes
\* source_type, the metadata of lines 184-189 has no such key
read_and_parse_csv(rows) ==
    IF rows = <<>>
    THEN [text     |-> <<>>,
          metadata |-> [filename       |-> CSV_FILENAME,
                        doc_id         |-> CSV_STEM,
                        column_headers |-> <<>>,
                        row_count      |-> 0,
                        source_type    |-> "csv"]]
    ELSE LET headers == Head(rows)
             all_text_parts == <<str_join(<<",", " ">>, headers)>> \o
                               data_row_texts(Tail(rows))
         IN  [text     |-> str_join(<<"\n">>, all_text_parts),
              metadata |-> [filename       |-> CSV_FILENAME,
                            doc_id         |-> CSV_STEM,
                            column_headers |-> headers,
                            row_count      |-> Len(all_text_parts) - 1]]

\* ingest_document (lines 84-100) of a CSVIngestor
ingest_csv_document(rows) ==
    LET parsed == read_and_parse_csv(rows)
    IN  [doc_id   |-> Some(IF parsed.metadata.doc_id # ""
                           THEN parsed.metadata.doc_id ELSE CSV_FILENAME),
         text     |-> Some(parsed.text),
         metadata |-> parsed.metadata]

\* the branch clean_text takes for a non-empty text, lines 70-76
cleaning_strategy(source_type) ==
    IF source_type \in {"pdf", "txt", "docx", "image"} THEN "narrative"
    ELSE IF source_type \in {"csv", "excel"} THEN "structured"
    ELSE "narrative"

\* the cells of the modelled files
CsvCells == { <<"a">>, <<"b", ".">>, <<" ", "c">>, <<>> }

CsvRowValues == UNION {[1..m -> CsvCells] : m \in 1..2}

CsvFiles == UNION {[1..m -> CsvRowValues] : m \in 0..MaxCsvRows}

IInit ==
    /\ csv_rows \in CsvFiles
    /\ csv_raw_doc = None
    /\ csv_strategy = "none"
    /\ csv_cleaned = None

IIdle ==
    /\ csv_rows = <<>>
    /\ csv_raw_doc = Some(ingest_csv_document(<<>>))
    /\ csv_strategy = "none"
    /\ csv_cleaned = Some(<<>>)

\* raw_doc = ingestor.ingest_document() for a .csv upload
\* (documents_api.py 50-51, library_api.py 142-143)
IngestCsv ==
    /\ csv_raw_doc = None
    /\ csv_raw_doc' = Some(ingest_csv_document(csv_rows))
    /\ UNCHANGED <<csv_rows, csv_strategy, csv_cleaned>>
    /\ UNCHANGED <<qvars, cvars, dvars, nvars, svars, pvars, avars, uvars>>

\* process_documents([raw_doc]) up to the cleaning, lines 138-150; a
\* document without text is skipped at line 143 and never cleaned
ProcessCsvDocument ==
    /\ csv_raw_doc # None
    /\ csv_cleaned = None
    /\ LET doc == csv_raw_doc[1]
       IN  IF ~has_doc_id(doc) \/ ~has_text(doc)
           THEN /\ csv_cleaned' = Some(<<>>)
                /\ UNCHANGED csv_strategy
           ELSE /\ csv_strategy' = cleaning_strategy(source_type_of(doc))
                /\ csv_cleaned' =
                       Some(clean_text(doc.text[1], source_type_of(doc)))
    /\ UNCHANGED <<csv_rows, csv_raw_doc>>
    /\ UNCHANGED <<qvars, cvars, dvars, nvars, svars, pvars, avars, uvars>>

(***************************************************************************)
(* Ingestion, storage and deletion of documents                            *)
(***************************************************************************)
\* the names of the uploaded files
UploadFilenames == {"a.txt", "a.pdf", "b.txt"}

\* os.path.splitext(os.path.basename(file_path))
splitext(filename) ==
    CASE filename = "a.txt" -> <<"a", ".txt">>
      [] filename = "a.pdf" -> <<"a", ".pdf">>
      [] filename = "b.txt" -> <<"b", ".txt">>

\* the source_type the ingestor chosen by create_ingestor writes
\* (document_ingestor.py 439-452, 257, 348)
file_source_type(filename) ==
    IF splitext(filename)[2] = ".pdf" THEN "pdf" ELSE "txt"

\* load_document: what the file holds
FileText(filename) ==
    IF filename = "a.txt" THEN TEXT_SIX_SENTENCES ELSE TEXT_BROKEN_LINE

\* extract_metadata (250-259, 336-351): doc_id is the file name without
\* its extension
extract_metadata(filename) ==
    [filename    |-> filename,
     doc_id      |-> splitext(filename)[1],
     source_type |-> file_source_type(filename)]

\* ingest_document, lines 84-100
ingest_document(filename) ==
    LET metadata == extract_metadata(filename)
    IN  [doc_id   |-> Some(IF metadata.doc_id # "" THEN metadata.doc_id
                           ELSE filename),
         text     |-> Some(FileText(filename)),
         metadata |-> metadata]

\* str(new_document_record.id): the primary keys of the Document rows
\* (db_models.py 58), in the order the database creates them
RecordUuids == <<"u1", "u2", "u3", "u4">>

\* process_documents (lines 125-184) as a function of the raw documents and
\* of what the embedding call does for each ("ok" or "fail")
RECURSIVE process_documents(_, _)
process_documents(raw_docs, outcomes) ==
    IF raw_docs = <<>> THEN <<>>
    ELSE LET doc == Head(raw_docs)
         IN  (IF skipped_before_embedding(doc) \/ Head(outcomes) = "fail"
              THEN <<>>
              ELSE assembled_chunks(doc,
                       embeddings_returned(text_chunks_of(doc), "ok")))
             \o process_documents(Tail(raw_docs), Tail(outcomes))

\* add_documents, lines 69-82: what is kept of a chunk (every metadata
\* value of this model is a str or an int, which line 75 keeps)
chroma_record(doc) ==
    [chunk_id   |-> doc.chunk_id,
     text_chunk |-> doc.text_chunk,
     embedding  |-> doc.embedding,
     metadata   |-> doc.metadata]

\* the ids list of lines 69 and 90
chunk_ids(batch) == [i \in 1..Len(batch) |-> batch[i].chunk_id]

HasDuplicates(ids) ==
    \E i, j \in 1..Len(ids) : i # j /\ ids[i] = ids[j]

HeldIds(coll) == {c.chunk_id : c \in coll}

\* collection.add (lines 88-93).  Chroma keeps one record per id: it
\* refuses a batch that repeats an id, and of a batch without repetition it
\* adds the ids it does not hold yet.
chroma_add(coll, batch) ==
    coll \cup {chroma_record(batch[i]) :
                  i \in {j \in 1..Len(batch) :
                            batch[j].chunk_id \notin HeldIds(coll)}}

\* collection.delete(where={"doc_id": doc_id}), line 217: the records whose
\* metadata has the key doc_id with this value are removed
chroma_delete(coll, doc_id) ==
    {c \in coll : ~("doc_id" \in DOMAIN c.metadata
                     /\ c.metadata.doc_id = doc_id)}

\* the document a chunk was made from: the doc_id of lines 169-170, which
\* is the first part of the chunk_id
ChunkDocId(c) == c.chunk_id[1]

NoOp == [op |-> "none", doc_id |-> "", status |-> 0, before |-> {}]

SInit ==
    /\ collection = {}
    /\ db_documents = {}
    /\ next_record = 1
    /\ handed = <<>>
    /\ last_op = NoOp
    /\ store_ops = 0

SIdle ==
    /\ collection = {}
    /\ db_documents = {}
    /\ next_record = 1
    /\ handed = <<>>
    /\ last_op = NoOp
    /\ store_ops = MaxStoreOps

\* `await doc_processor.process_documents([raw_doc])`: process_documents is
\* a plain function (document_processor.py 125), it runs and returns a list,
\* and awaiting a list raises TypeError
AWAIT_OF_LIST == "TypeError"

\* documents_api.upload_document, lines 39-81: the file is ingested and
\* processed, line 54 raises at the await, lines 74-76 answer 500;
\* add_documents (line 58) is not reached
UploadDocument ==
    /\ store_ops < MaxStoreOps
    /\ \E filename \in UploadFilenames :
         last_op' = [op |-> "upload_document",
                     doc_id |-> ingest_document(filename).doc_id[1],
                     status |-> IF AWAIT_OF_LIST = "TypeError"
                                THEN 500 ELSE 200,
                     before |-> collection]
    /\ store_ops' = store_ops + 1
    /\ UNCHANGED <<collection, db_documents, next_record, handed>>
    /\ UNCHANGED <<qvars, cvars, dvars, nvars, pvars, ivars, avars, uvars>>

\* library_api.upload_document_to_library, lines 133-172 (and
\* interactions_api 66-134): the Document row is committed (140-147), the
\* raw document gets its id (149-150), line 152 raises at the await and the
\* TypeError leaves the handler; add_documents (line 156) is not reached
UploadDocumentToLibrary ==
    /\ store_ops < MaxStoreOps
    /\ next_record <= MaxRecords
    /\ \E filename \in UploadFilenames :
         /\ db_documents' = db_documents \cup
                {[id |-> RecordUuids[next_record], filename |-> filename]}
         /\ last_op' = [op |-> "upload_document_to_library",
                        doc_id |-> RecordUuids[next_record],
                        status |-> IF AWAIT_OF_LIST = "TypeError"
                                   THEN 500 ELSE 200,
                        before |-> collection]
    /\ next_record' = next_record + 1
    /\ store_ops' = store_ops + 1
    /\ UNCHANGED <<collection, handed>>
    /\ UNCHANGED <<qvars, cvars, dvars, nvars, pvars, ivars, avars, uvars>>

\* the raw documents a caller of the two services builds: as ingested
\* (documents_api 49-50), with the id of a Document row that has no chunk
\* yet (library_api 138-150), or two ingested documents in one list
PipelineInputs ==
    {<<ingest_document(f)>> : f \in UploadFilenames}
    \cup
    {<<[ingest_document(r.filename) EXCEPT !.doc_id = Some(r.id)]>> :
        r \in {x \in db_documents :
                  \A b \in 1..Len(handed) : \A i \in 1..Len(handed[b]) :
                      handed[b][i][1] # x.id}}
    \cup
    {<<ingest_document(f), ingest_document(g)>> :
        f \in UploadFilenames, g \in UploadFilenames}

\* The two services composed as the upload handlers compose them, with
\* process_documents called as the plain function it is:
\* vector_db.add_documents(doc_processor.process_documents(raw_docs)),
\* add_documents being called when there is a chunk (documents_api 57-58).
\* A failure of collection.add, or a batch that repeats an id, raises
\* VectorDBError (lines 97-99) and leaves the collection as it was.
ProcessAndStore ==
    /\ store_ops < MaxStoreOps
    /\ \E raw_docs \in PipelineInputs :
       \E outcomes \in [1..Len(raw_docs) -> {"ok", "fail"}] :
       \E add_ok \in BOOLEAN :
         LET batch == process_documents(raw_docs, outcomes)
         IN  /\ batch # <<>>
             /\ handed' = Append(handed, chunk_ids(batch))
             /\ IF add_ok /\ ~HasDuplicates(chunk_ids(batch))
                THEN /\ collection' = chroma_add(collection, batch)
                     /\ last_op' = [op |-> "add", doc_id |-> batch[1].doc_id,
                                    status |-> 200, before |-> collection]
                ELSE /\ UNCHANGED collection
                     /\ last_op' = [op |-> "add", doc_id |-> batch[1].doc_id,
                                    status |-> 500, before |-> collection]
    /\ store_ops' = store_ops + 1
    /\ UNCHANGED <<db_documents, next_record>>
    /\ UNCHANGED <<qvars, cvars, dvars, nvars, pvars, ivars, avars, uvars>>

\* library_api.delete_library_document, lines 91-115:
\* delete_documents(doc_id=str(document_id)) (vector_db_service 199-226),
\* then the row is deleted; a failure of collection.delete answers 500 and
\* keeps the row
DeleteLibraryDocument ==
    /\ \E r \in db_documents : \E delete_ok \in BOOLEAN :
         IF delete_ok
         THEN /\ collection' = chroma_delete(collection, r.id)
              /\ db_documents' = db_documents \ {r}
              /\ last_op' = [op |-> "delete", doc_id |-> r.id,
                             status |-> 200, before |-> collection]
         ELSE /\ last_op' = [op |-> "delete", doc_id |-> r.id,
                             status |-> 500, before |-> collection]
              /\ UNCHANGED <<collection, db_documents>>
    /\ UNCHANGED <<next_record, handed, store_ops>>
    /\ UNCHANGED <<qvars, cvars, dvars, nvars, pvars, ivars, avars, uvars>>

(***************************************************************************)
(* VectorDBService.add_documents, lines 40-99                              *)
(***************************************************************************)
\* A metadata value is a record: kind is its Python type, v its content as
\* a text (a list holds strings, a dict is empty).
MetaNone == [kind |-> "NoneType", v |-> <<>>]

MetaScalarKinds == {"bool", "int", "float", "str"}

\* repr of a str without quotes or escapes in it
py_repr_str(t) == <<"'">> \o t \o <<"'">>

\* str(value) of line 80 for a list of strings and for the empty dict
py_str(value) ==
    IF value.kind = "list"
    THEN <<"[">> \o
         str_join(<<",", " ">>,
                  [i \in 1..Len(value.v) |-> py_repr_str(value.v[i])]) \o
         <<"]">>
    ELSE <<"{", "}">>

\* lines 74-80 without the replacement of None
sanitized_value_keep_none(value) ==
    IF value.kind \in MetaScalarKinds \cup {"NoneType"} THEN value
    ELSE [kind |-> "str", v |-> py_str(value)]

\* lines 74-80: what is stored for one metadata value
sanitized_value(value) ==
    IF value.kind = "NoneType" THEN [kind |-> "str", v |-> <<>>]
    ELSE IF value.kind \in MetaScalarKinds THEN value
    ELSE [kind |-> "str", v |-> py_str(value)]

\* lines 72-80
sanitized_metadata(metadata) ==
    [key \in DOMAIN metadata |-> sanitized_value(metadata[key])]

REQUIRED_KEYS == {"chunk_id", "text_chunk", "embedding", "metadata"}

\* lines 69-73 raise KeyError for this chunk
lacks_key(doc) == ~(REQUIRED_KEYS \subseteq DOMAIN doc)

\* lines 69-82: what add_documents puts in its four lists for a chunk
sanitized_record(doc) ==
    [chunk_id   |-> doc.chunk_id,
     text_chunk |-> doc.text_chunk,
     embedding  |-> doc.embedding,
     metadata   |-> sanitized_metadata(doc.metadata)]

\* one collection.add call per chunk instead of the single call
store_calls_one_per_chunk(records) ==
    [i \in 1..Len(records) |-> <<records[i]>>]

\* lines 88-94: the collection.add calls, one call with all four lists
store_calls(records) == <<records>>

\* collection.add applied to the lists of one call: Chroma refuses a call
\* that repeats an id and otherwise adds the records in one step
collection_add(coll, records) ==
    coll \cup {records[i] : i \in 1..Len(records)}

METADATA_CSV ==
    [filename       |-> [kind |-> "str", v |-> <<"f">>],
     column_headers |-> [kind |-> "list", v |-> << <<"a">>, <<"b">> >>],
     page           |-> MetaNone]

METADATA_SCALARS ==
    [chunk_number |-> [kind |-> "int", v |-> <<"0">>],
     ok           |-> [kind |-> "bool", v |-> <<"T", "r", "u", "e">>],
     score        |-> [kind |-> "float", v |-> <<"0", ".", "5">>],
     extra        |-> [kind |-> "dict", v |-> <<>>],
     tags         |-> [kind |-> "list", v |-> <<>>]]

AddChunkIds == {"a_chunk_0", "a_chunk_1"}

CompleteChunks ==
    {[chunk_id |-> id, text_chunk |-> <<"t">>, embedding |-> <<1>>,
      metadata |-> md] :
        id \in AddChunkIds, md \in {METADATA_CSV, METADATA_SCALARS}}

\* a chunk with one of the four keys missing
IncompleteChunks ==
    LET c == [chunk_id |-> "a_chunk_1", text_chunk |-> <<"t">>,
              embedding |-> <<1>>, metadata |-> METADATA_CSV]
    IN  {[key \in REQUIRED_KEYS \ {missing} |-> c[key]] :
            missing \in REQUIRED_KEYS}

AddBatches ==
    UNION {[1..m -> CompleteChunks \cup IncompleteChunks] : m \in 0..MaxBatch}

\* a record stored before, under an id no batch uses
STORED_RECORD ==
    [chunk_id |-> "z_chunk_0", text_chunk |-> <<"o">>, embedding |-> <<1>>,
     metadata |-> [filename |-> [kind |-> "str", v |-> <<"z">>]]]

AInit ==
    /\ a_collection \in {{}, {STORED_RECORD}}
    /\ a_batch \in AddBatches
    /\ a_pc = "idle"
    /\ a_handed = None
    /\ a_pending = <<>>
    /\ a_raised = "none"
    /\ a_before = a_collection
    /\ a_seen = {}

AIdle ==
    /\ a_collection = {}
    /\ a_batch = <<>>
    /\ a_pc = "done"
    /\ a_handed = None
    /\ a_pending = <<>>
    /\ a_raised = "none"
    /\ a_before = {}
    /\ a_seen = {}

\* add_documents up to line 86: an empty list returns at line 60; the loop
\* of lines 67-86 fills the four lists and raises VectorDBError at the first
\* chunk that lacks a key, before any store call
AddDocuments_Validate ==
    /\ a_pc = "idle"
    /\ IF a_batch = <<>>
       THEN /\ a_pc' = "done"
            /\ UNCHANGED <<a_handed, a_pending, a_raised>>
       ELSE IF \E i \in 1..Len(a_batch) : lacks_key(a_batch[i])
       THEN /\ a_pc' = "done"
            /\ a_raised' = "VectorDBError"
            /\ UNCHANGED <<a_handed, a_pending>>
       ELSE LET records == [i \in 1..Len(a_batch) |->
                               sanitized_record(a_batch[i])]
            IN  /\ a_pc' = "validated"
                /\ a_handed' = Some([i \in 1..Len(records) |->
                                        records[i].metadata])
                /\ a_pending' = store_calls(records)
                /\ UNCHANGED a_raised
    /\ UNCHANGED <<a_collection, a_batch, a_before, a_seen>>
    /\ UNCHANGED <<qvars, cvars, dvars, nvars, svars, pvars, ivars, uvars>>

\* lines 88-99: collection.add; when it raises (a repeated id, a store
\* failure) nothing of the call is stored and VectorDBError leaves
AddDocuments_Store ==
    /\ a_pc = "validated"
    /\ a_pending # <<>>
    /\ \E add_ok \in BOOLEAN :
         LET records == Head(a_pending)
             ids == [i \in 1..Len(records) |-> records[i].chunk_id]
         IN  IF add_ok /\ ~HasDuplicates(ids)
             THEN /\ a_collection' = collection_add(a_collection, records)
                  /\ a_pending' = Tail(a_pending)
                  /\ a_pc' = IF Tail(a_pending) = <<>> THEN "done"
                             ELSE "validated"
                  /\ UNCHANGED a_raised
             ELSE /\ a_raised' = "VectorDBError"
                  /\ a_pc' = "done"
                  /\ UNCHANGED <<a_collection, a_pending>>
    /\ UNCHANGED <<a_batch, a_handed, a_before, a_seen>>
    /\ UNCHANGED <<qvars, cvars, dvars, nvars, svars, pvars, ivars, uvars>>

\* query_documents (lines 101-155) called by another request while
\* add_documents runs: collection.query sees the records held at that moment
ConcurrentQuery ==
    /\ a_collection \notin a_seen
    /\ a_seen' = a_seen \cup {a_collection}
    /\ UNCHANGED <<a_collection, a_batch, a_pc, a_handed, a_pending,
                   a_raised, a_before>>
    /\ UNCHANGED <<qvars, cvars, dvars, nvars, svars, pvars, ivars, uvars>>

(***************************************************************************)
(* The upload handlers and their temporary file: library_api.py 133-172,   *)
(* interactions_api.py 66-134, documents_api.py 39-81                      *)
(***************************************************************************)
Uploads == 1..MaxUploads

\* the paths os.path.join(UPLOAD_DIRECTORY, file.filename) of the uploads
TempPaths == {"a.txt", "b.txt"}

\* "documents" awaits nothing before its finally block but the list that
\* process_documents returned; "library" stands for library_api and
\* interactions_api, which await db.commit() and db.refresh() after the
\* ingestion
UploadHandlers == {"documents", "library"}

\* open(temp_file_path, "wb") and shutil.copyfileobj: the file at the path
\* holds the bytes of this upload, whatever it held
save_upload(files, path, upload) == [files EXCEPT ![path] = upload]

\* ingest_document on the path: the bytes read, "missing" without a file
\* (BaseDocumentIngestor.__init__, document_ingestor.py 62-63)
ingest_path(files, path) ==
    IF files[path] = 0 THEN <<"missing">> ELSE <<"bytes", files[path]>>

\* the finally block without its os.remove
cleanup_temp_file_kept(files, path) == files

\* the finally block: if os.path.exists(path): os.remove(path)
cleanup_temp_file(files, path) ==
    IF files[path] # 0 THEN [files EXCEPT ![path] = 0] ELSE files

UInit ==
    /\ up_filename \in [Uploads -> TempPaths]
    /\ up_handler \in [Uploads -> UploadHandlers]
    /\ up_pc = [u \in Uploads |-> "start"]
    /\ up_ingested = [u \in Uploads |-> None]
    /\ temp_files = [path \in TempPaths |-> 0]
    /\ up_shared = FALSE

UIdle ==
    /\ up_filename = <<>>
    /\ up_handler = <<>>
    /\ up_pc = <<>>
    /\ up_ingested = <<>>
    /\ temp_files = <<>>
    /\ up_shared = FALSE

\* From the open of the temporary file to the first suspension point: the
\* file is written and ingested without an await in between (library_api
\* 135-138, interactions_api 68-71, documents_api 43-50).  documents_api then
\* runs process_documents, the await of its list raises (line 54) and the
\* finally block runs (77-80); the other two handlers suspend at
\* `await db.commit()`.  An ingestion that finds no file raises
\* DocumentIngestionError and the finally block runs.
Upload_SaveAndIngest(u) ==
    /\ up_pc[u] = "start"
    /\ LET path == up_filename[u]
           saved == save_upload(temp_files, path, u)
           read == ingest_path(saved, path)
       IN  /\ up_ingested' = [up_ingested EXCEPT ![u] = Some(read)]
           /\ up_shared' =
                  (up_shared \/ \E v \in Uploads \ {u} :
                                   /\ up_filename[v] = path
                                   /\ up_pc[v] \in {"commit", "refresh"})
           /\ IF up_handler[u] = "documents" \/ read[1] = "missing"
              THEN /\ temp_files' = cleanup_temp_file(saved, path)
                   /\ up_pc' = [up_pc EXCEPT ![u] = "done"]
              ELSE /\ temp_files' = saved
                   /\ up_pc' = [up_pc EXCEPT ![u] = "commit"]
    /\ UNCHANGED <<up_filename, up_handler>>
    /\ UNCHANGED <<qvars, cvars, dvars, nvars, svars, pvars, ivars, avars>>

\* `await db.commit()` (library_api 146, interactions_api 79) resumes: it
\* returns and the handler suspends at `await db.refresh(..)`, or it raises
\* and the finally block runs
Upload_Commit(u) ==
    /\ up_pc[u] = "commit"
    /\ \/ /\ up_pc' = [up_pc EXCEPT ![u] = "refresh"]
          /\ UNCHANGED temp_files
       \/ /\ up_pc' = [up_pc EXCEPT ![u] = "done"]
          /\ temp_files' = cleanup_temp_file(temp_files, up_filename[u])
    /\ UNCHANGED <<up_filename, up_handler, up_ingested, up_shared>>
    /\ UNCHANGED <<qvars, cvars, dvars, nvars, svars, pvars, ivars, avars>>

\* `await db.refresh(..)` resumes (library_api 147, interactions_api 80):
\* process_documents runs on the text ingested before, the await of its
\* list raises (152, 85) and the finally block runs (170-172, 132-134)
Upload_Finish(u) ==
    /\ up_pc[u] = "refresh"
    /\ up_pc' = [up_pc EXCEPT ![u] = "done"]
    /\ temp_files' = cleanup_temp_file(temp_files, up_filename[u])
    /\ UNCHANGED <<up_filename, up_handler, up_ingested, up_shared>>
    /\ UNCHANGED <<qvars, cvars, dvars, nvars, svars, pvars, ivars, avars>>

(***************************************************************************)
(* Specifications                                                          *)
(***************************************************************************)
vars == <<qvars, cvars, dvars, nvars, svars, pvars, ivars, avars, uvars>>

Init ==
    /\ QInit /\ CIdle /\ DIdle /\ NIdle /\ SIdle /\ PIdle /\ IIdle /\ AIdle
    /\ UIdle

Next == QNext

Spec == Init /\ [][Next]_vars

InitChunk ==
    /\ CInit /\ QIdle /\ DIdle /\ NIdle /\ SIdle /\ PIdle /\ IIdle /\ AIdle
    /\ UIdle

NextChunk == ChunkTextBySentences

SpecChunk == InitChunk /\ [][NextChunk]_vars

InitDocs ==
    /\ DInit /\ QIdle /\ CIdle /\ NIdle /\ SIdle /\ PIdle /\ IIdle /\ AIdle
    /\ UIdle

NextDocs ==
    \/ ProcessDocument
    \/ ProcessDocuments_Return

SpecDocs == InitDocs /\ [][NextDocs]_vars

InitClean ==
    /\ NInit /\ QIdle /\ CIdle /\ DIdle /\ SIdle /\ PIdle /\ IIdle /\ AIdle
    /\ UIdle

NextClean ==
    \/ CleanText
    \/ CleanTextAgain

SpecClean == InitClean /\ [][NextClean]_vars

InitStore ==
    /\ SInit /\ QIdle /\ CIdle /\ DIdle /\ NIdle /\ PIdle /\ IIdle /\ AIdle
    /\ UIdle

NextStore ==
    \/ UploadDocument
    \/ UploadDocumentToLibrary
    \/ ProcessAndStore
    \/ DeleteLibraryDocument

SpecStore == InitStore /\ [][NextStore]_vars

InitSplit ==
    /\ PInit /\ QIdle /\ CIdle /\ DIdle /\ NIdle /\ SIdle /\ IIdle /\ AIdle
    /\ UIdle

NextSplit == RecursiveSplit

SpecSplit == InitSplit /\ [][NextSplit]_vars

InitCsv ==
    /\ IInit /\ QIdle /\ CIdle /\ DIdle /\ NIdle /\ SIdle /\ PIdle /\ AIdle
    /\ UIdle

NextCsv == IngestCsv \/ ProcessCsvDocument

SpecCsv == InitCsv /\ [][NextCsv]_vars

\* the records a store holds while a query or a processing run goes on
FrameStores ==
    { {[chunk_id   |-> <<"d9", "_chunk_", 0>>,
        text_chunk |-> <<"x">>,
        embedding  |-> [vector_of |-> <<"x">>],
        metadata   |-> [doc_id |-> "d9"]]},
      {} }

\* a store with records in it, and either a process_query invocation or a
\* process_documents invocation about to run
InitFrame ==
    /\ collection \in FrameStores
    /\ db_documents = {}
    /\ next_record = 1
    /\ handed = <<>>
    /\ last_op = NoOp
    /\ store_ops = MaxStoreOps
    /\ (QInit /\ DIdle) \/ (DInit /\ QIdle)
    /\ CIdle /\ NIdle /\ PIdle /\ IIdle /\ AIdle /\ UIdle

NextFrame == QNext \/ ProcessDocument \/ ProcessDocuments_Return

SpecFrame == InitFrame /\ [][NextFrame]_vars

InitUpload ==
    /\ UInit /\ QIdle /\ CIdle /\ DIdle /\ NIdle /\ SIdle /\ PIdle /\ IIdle
    /\ AIdle

NextUpload ==
    \E u \in Uploads :
        \/ Upload_SaveAndIngest(u)
        \/ Upload_Commit(u)
        \/ Upload_Finish(u)

SpecUpload == InitUpload /\ [][NextUpload]_vars

InitAdd ==
    /\ AInit /\ QIdle /\ CIdle /\ DIdle /\ NIdle /\ SIdle /\ PIdle /\ IIdle
    /\ UIdle

NextAdd == AddDocuments_Validate \/ AddDocuments_Store \/ ConcurrentQuery

SpecAdd == InitAdd /\ [][NextAdd]_vars

(***************************************************************************)
(* Properties of the query path (specification Spec)                       *)
(***************************************************************************)
Returned == pc = "done" /\ result # None

\* C1: whenever process_query returns, the returned string is non-empty.
C1_ReturnsNonEmptyString == Returned => result[1] # <<>>

\* C2 as stated: once the body of process_query runs, it ends without
\* raising, whatever the embedding call, the store query and the model do.
C2_NeverRaises == (pc = "done" /\ embed_calls > 0) => raised = "none"

\* C2 amended: a failed embedding call raises LLMError, a failed store
\* query raises QueryProcessingError, and when both succeed and every
\* candidate used as context has a text, process_query returns a string and
\* raises nothing whatever the language-model calls do.
C2_RaisesOnlyForEmbeddingOrStore ==
    (pc = "done" /\ embed_calls > 0) =>
        /\ "embedding" \in faults => raised = "LLMError" /\ result = None
        /\ "store" \in faults =>
               raised = "QueryProcessingError" /\ result = None
        /\ ( /\ faults \cap {"embedding", "store"} = {}
             /\ \A i \in 1..Len(context_chunks_text) :
                    context_chunks_text[i] # None )
           => raised = "none" /\ result # None

\* C2 witness: the model call failed during main synthesis and the query
\* still returned the fixed string
C2_Witness ==
    /\ pc = "done"
    /\ "synthesis" \in faults
    /\ raised = "none"
    /\ result = Some(MSG_SYNTHESIS_ERROR)

\* C3: when the main synthesis answers with the sentinel, the
\* synthesis-failure prompt is sent and the returned string is not the
\* sentinel.
C3_SentinelNeverReturned ==
    (pc = "done" /\ llm_response = Some(LLM_NO_ANSWER_RESPONSE)) =>
        /\ \E i \in 1..Len(prompts) : prompts[i].kind = "synthesis_failure"
        /\ result # None
        /\ result[1] # LLM_NO_ANSWER_RESPONSE

PromptCount(kind) ==
    Cardinality({i \in 1..Len(prompts) : prompts[i].kind = kind})

\* C4 (with a configured chat model): when no candidate survives the
\* filter, neither the synthesis prompt nor the synthesis-failure prompt is
\* sent, the retrieval-failure prompt is sent exactly once, and the returned
\* string is non-empty and free of the sentinel.
C4_RetrievalFailureBranch ==
    (pc = "done" /\ failure_type = "retrieval_failure" /\ chat_model) =>
        /\ PromptCount("synthesis") = 0
        /\ PromptCount("synthesis_failure") = 0
        /\ PromptCount("retrieval_failure") = 1
        /\ result # None
        /\ result[1] # <<>>
        /\ ~Contains(result[1], LLM_NO_ANSWER_RESPONSE)

\* C5: a query made with allowed_doc_ids given and empty returns the
\* retrieval-failure message and issues no similarity query.
C5_EmptyScopeShortCircuit ==
    (pc = "done" /\ call.allowed_doc_ids = Some({})) =>
        /\ store_queries = <<>>
        /\ failure_type = "retrieval_failure"
        /\ result # None

\* C6: process_query accepts chat_history and allowed_doc_ids, and with a
\* non-empty allowed_doc_ids every chunk placed in the synthesis prompt
\* belongs to an allowed document.
C6_StatefulVariantScoped ==
    (pc = "done" /\ "allowed_doc_ids" \in call.kwargs) =>
        /\ raised # "TypeError"
        /\ call.allowed_doc_ids[1] # {} =>
             \A i \in 1..Len(SliceTo(truly_relevant_chunks, call.n_results)) :
                 /\ truly_relevant_chunks[i].metadata # None
                 /\ truly_relevant_chunks[i].metadata[1].doc_id
                        \in call.allowed_doc_ids[1]

\* the candidates the claim says are kept
Near(chunk) ==
    chunk.distance # None /\ chunk.distance[1] < RELEVANCE_THRESHOLD

Elems(seq) == {seq[i] : i \in 1..Len(seq)}

Thresholds == 0..MaxThreshold

\* C8: for thresholds t1 < t2 every candidate the filter keeps at t1 is
\* kept at t2.
C8_FilterMonotone ==
    \A t1, t2 \in Thresholds :
        t1 < t2 =>
            Elems(relevant_chunks(initial_chunks_data, t1))
                \subseteq Elems(relevant_chunks(initial_chunks_data, t2))

\* C8 witness: a candidate list on which a larger threshold keeps strictly
\* more than a smaller one, which keeps something
C8_Witness ==
    \E t1, t2 \in Thresholds :
        /\ t1 < t2
        /\ relevant_chunks(initial_chunks_data, t1) # <<>>
        /\ Elems(relevant_chunks(initial_chunks_data, t1))
               # Elems(relevant_chunks(initial_chunks_data, t2))

\* C16: a failure of the query-embedding call or of the store query ends
\* the query with an error (LLMError, QueryProcessingError); the failed call
\* was made once, and no later stage ran: no store query after a failed
\* embedding, no prompt of any kind after either failure.
C16_EmbeddingAndStoreFailuresFatal ==
    /\ "embedding" \in faults =>
           /\ pc = "done"
           /\ raised = "LLMError"
           /\ result = None
           /\ embed_calls = 1
           /\ store_queries = <<>>
           /\ prompts = <<>>
    /\ "store" \in faults =>
           /\ pc = "done"
           /\ raised = "QueryProcessingError"
           /\ result = None
           /\ embed_calls = 1
           /\ Len(store_queries) = 1
           /\ prompts = <<>>

\* a query whose store query failed, with a configured chat model
C16_Witness ==
    /\ pc = "done"
    /\ chat_model
    /\ faults = {"store"}
    /\ raised = "QueryProcessingError"

\* C17: a language-model failure is never raised by process_query.  An
\* unconfigured model or a failed call during main synthesis makes a fixed
\* string the answer; an unconfigured model or a failed call during the
\* failure-message generation makes a fixed apology the answer.
C17_ModelFailureDegrades ==
    (pc = "done" /\ faults \cap {"embedding", "store"} = {}
                /\ "EMBEDDING_QUERY" \in Elems(stages)) =>
        /\ "synthesis" \in faults =>
               raised = "none" /\ result = Some(MSG_SYNTHESIS_ERROR)
        /\ "failure_message" \in faults =>
               raised = "none" /\ result = Some(MSG_NO_ANSWER)
        /\ (~chat_model /\ failure_type = "none") =>
               raised = "none" /\ result = Some(MSG_MODEL_NOT_CONFIGURED)
        /\ (~chat_model /\ failure_type # "none") =>
               raised = "none" /\ result = Some(MSG_GENERATOR_OFFLINE)

\* the model answered the sentinel and then failed on the
\* synthesis-failure prompt
C17_Witness ==
    /\ pc = "done"
    /\ failure_type = "synthesis_failure"
    /\ "failure_message" \in faults
    /\ result = Some(MSG_NO_ANSWER)

\* position of a stage in the order of the orchestrator
StageRank(stage) ==
    CASE stage = "EMBEDDING_QUERY"   -> 1
      [] stage = "RETRIEVING"        -> 2
      [] stage = "FILTERING"         -> 3
      [] stage = "SYNTHESIZING"      -> 4
      [] stage = "RETRIEVAL_FAILURE" -> 5
      [] stage = "SYNTHESIS_FAILURE" -> 5
      [] stage = "DONE"              -> 6

SynthesizedAnswer ==
    /\ failure_type = "none"
    /\ llm_response # None
    /\ result = llm_response
    /\ stages[Len(stages) - 1] = "SYNTHESIZING"

RetrievalFailureMessage ==
    /\ failure_type = "retrieval_failure"
    /\ llm_response = None
    /\ stages[Len(stages) - 1] = "RETRIEVAL_FAILURE"

SynthesisFailureMessage ==
    /\ failure_type = "synthesis_failure"
    /\ llm_response = Some(LLM_NO_ANSWER_RESPONSE)
    /\ stages[Len(stages) - 1] = "SYNTHESIS_FAILURE"

\* where process_query stands, in the order of lines 97-148
PcRank(at) ==
    CASE at = "idle"             -> 0
      [] at = "embedding"        -> 1
      [] at = "retrieving"       -> 2
      [] at = "synthesizing"     -> 3
      [] at = "failure_response" -> 4
      [] at = "done"             -> 5

\* C28: a process_query invocation makes at most one query-embedding call,
\* at most one store query and at most two generate calls, of which at most
\* one main synthesis and at most one failure-message generation, never the
\* retrieval-failure prompt and the synthesis-failure prompt together; every
\* step moves it forward in the order of its code, so it ends after at most
\* five steps and no call is made again.
C28_BoundedCallsAndTermination ==
    /\ [](/\ embed_calls <= 1
          /\ Len(store_queries) <= 1
          /\ Len(prompts) <= 2
          /\ PromptCount("synthesis") <= 1
          /\ PromptCount("retrieval_failure")
                 + PromptCount("synthesis_failure") <= 1)
    /\ [][PcRank(pc') > PcRank(pc)]_qvars

\* a finished query that made every call it can make: the embedding, the
\* store query, the main synthesis and the synthesis-failure message
C28_Witness ==
    /\ pc = "done"
    /\ embed_calls = 1
    /\ Len(store_queries) = 1
    /\ Len(prompts) = 2
    /\ PromptCount("synthesis") = 1
    /\ PromptCount("synthesis_failure") = 1

\* C18: the stages of a query are entered in the order EMBEDDING_QUERY,
\* RETRIEVING, FILTERING, SYNTHESIZING, DONE; the store is queried only
\* after the embedding was obtained; the synthesis prompt is sent only when
\* the filter left a candidate; a query that did not raise ends in exactly
\* one of: synthesized answer, retrieval-failure message,
\* synthesis-failure message.
C18_StageOrder ==
    /\ \A i, j \in 1..Len(stages) :
           i < j => StageRank(stages[i]) < StageRank(stages[j])
    /\ stages # <<>> => stages[1] = "EMBEDDING_QUERY"
    /\ store_queries # <<>> =>
           /\ embed_calls = 1
           /\ "embedding" \notin faults
           /\ "RETRIEVING" \in Elems(stages)
    /\ PromptCount("synthesis") > 0 =>
           /\ truly_relevant_chunks # <<>>
           /\ \E i \in 1..(Len(stages) - 1) :
                  stages[i] = "FILTERING" /\ stages[i + 1] = "SYNTHESIZING"
    /\ "SYNTHESIZING" \in Elems(stages) => truly_relevant_chunks # <<>>
    /\ (pc = "done" /\ raised = "none") =>
           /\ result # None
           /\ stages[Len(stages)] = "DONE"
           /\ Cardinality({o \in {"answer", "retrieval", "synthesis"} :
                  \/ o = "answer" /\ SynthesizedAnswer
                  \/ o = "retrieval" /\ RetrievalFailureMessage
                  \/ o = "synthesis" /\ SynthesisFailureMessage}) = 1
    /\ (pc = "done" /\ raised # "none") =>
           result = None /\ "DONE" \notin Elems(stages)

\* a query that went through all five stages
C18_Witness ==
    /\ pc = "done"
    /\ stages = <<"EMBEDDING_QUERY", "RETRIEVING", "FILTERING",
                  "SYNTHESIZING", "DONE">>
    /\ PromptCount("synthesis") = 1
    /\ Len(truly_relevant_chunks) < Len(initial_chunks_data)

\* C19: the number of candidates the store is asked for is
\* max(n_results, 10).
C19_QueryForCount ==
    \A i \in 1..Len(store_queries) :
        LET K == store_queries[i][1]
        IN  /\ K >= call.n_results
            /\ K >= 10
            /\ K \in {call.n_results, 10}

\* the store was asked for more than the floor of 10
C19_Witness ==
    /\ Len(store_queries) = 1
    /\ call.n_results > 10
    /\ store_queries[1][1] = call.n_results

\* C20: the texts in the synthesis prompt are those of the first
\* min(n_results, |S|) survivors S in store order, never more than
\* n_results texts.
C20_ContextIsFirstSurvivors ==
    \A p \in 1..Len(prompts) :
        prompts[p].kind = "synthesis" =>
            LET S == truly_relevant_chunks
                m == IF call.n_results <= Len(S)
                     THEN call.n_results ELSE Len(S)
            IN  /\ S # <<>>
                /\ Len(prompts[p].context) = m
                /\ Len(prompts[p].context) <= call.n_results
                /\ \A i \in 1..m : prompts[p].context[i] = S[i].text_chunk

\* more survivors than requested: the prompt holds the first n_results
C20_Witness ==
    /\ PromptCount("synthesis") = 1
    /\ call.n_results = 1
    /\ Len(truly_relevant_chunks) >= 2
    /\ prompts[1].context = <<truly_relevant_chunks[1].text_chunk>>

(***************************************************************************)
(* Properties of process_documents (specification SpecDocs)                *)
(***************************************************************************)
\* the embedding call made for document i failed
EmbeddingFailedFor(i) == i <= Len(doc_outcomes) /\ doc_outcomes[i] = "fail"

\* the chunks of the documents from position i on that can be processed and
\* whose embedding call did not fail, in input order
RECURSIVE ChunksOfRemainingDocuments(_)
ChunksOfRemainingDocuments(i) ==
    IF i > Len(raw_documents) THEN <<>>
    ELSE LET doc == raw_documents[i]
             own == IF skipped_before_embedding(doc) \/ EmbeddingFailedFor(i)
                    THEN <<>>
                    ELSE assembled_chunks(doc,
                             embeddings_returned(text_chunks_of(doc), "ok"))
         IN  own \o ChunksOfRemainingDocuments(i + 1)

Skippable(doc) ==
    \/ doc.doc_id = None
    \/ doc.doc_id = Some("")
    \/ doc.text = None
    \/ doc.text = Some(<<>>)
    \/ clean_text(doc.text[1], source_type_of(doc)) = <<>>
    \/ text_chunks_of(doc) = <<>>

\* the batches expected for the documents from position i on: one batch
\* with all chunk texts for every document that is not skipped
RECURSIVE ExpectedBatches(_)
ExpectedBatches(i) ==
    IF i > Len(raw_documents) THEN <<>>
    ELSE (IF Skippable(raw_documents[i]) THEN <<>>
          ELSE <<text_chunks_of(raw_documents[i])>>)
         \o ExpectedBatches(i + 1)

\* C21: when process_documents has ended, no embedding call was made for a
\* skipped document and exactly one batch call, with all its chunk texts,
\* was made for every other document of the input, in input order; every
\* document after a skipped one was still looked at.
C21_OneBatchCallPerDocument ==
    pd_pc = "done" =>
        /\ embedding_requests = ExpectedBatches(1)
        /\ \A i \in 1..Len(doc_outcomes) :
               doc_outcomes[i] = "skipped" => Len(doc_outcomes) > i
                                              \/ i = Len(raw_documents)

\* C22: for every document that is not skipped and for which the gateway
\* returned a list of vectors, the output holds one complete chunk per chunk
\* text: chunk_id doc_id_chunk_i, chunk_number i, the i-th text, the i-th
\* embedding and the parent metadata, contiguous and in input order.
C22_OneCompleteChunkPerText ==
    pd_pc = "done" =>
        /\ pd_raised = "none"
        /\ pd_result # None
        /\ \A d \in 1..Len(doc_outcomes) :
               doc_outcomes[d] \in {"ok", "short"} =>
                   LET doc == raw_documents[d]
                       texts == text_chunks_of(doc)
                       first == Len(ChunksOfRemainingDocuments(1))
                                - Len(ChunksOfRemainingDocuments(d))
                   IN  \A i \in 1..Len(texts) :
                         /\ first + i <= Len(pd_result[1])
                         /\ LET chunk == pd_result[1][first + i]
                            IN  /\ chunk.chunk_id =
                                       <<doc.doc_id[1], "_chunk_", i - 1>>
                                /\ chunk.metadata.chunk_number = i - 1
                                /\ chunk.text_chunk = texts[i]
                                /\ chunk.embedding = [vector_of |-> texts[i]]
                                /\ \A k \in DOMAIN doc.metadata :
                                       chunk.metadata[k] = doc.metadata[k]

(***************************************************************************)
(* Properties of the vector store (specification SpecStore)                *)
(***************************************************************************)
\* C14: deleting a document by the id the upload gave it removes every
\* chunk made from that document and keeps every chunk of the others.
C14_DeleteRemovesDocumentChunks ==
    (last_op.op = "delete" /\ last_op.status = 200) =>
        collection = {c \in last_op.before : ChunkDocId(c) # last_op.doc_id}

\* C15: no id list handed to add_documents repeats a chunk_id, no handed
\* chunk has the chunk_id of a chunk the store holds, and the store holds
\* one chunk per chunk_id.
C15_ChunkIdsUnique ==
    /\ \A b \in 1..Len(handed) : ~HasDuplicates(handed[b])
    /\ last_op.op = "add" =>
           \A i \in 1..Len(handed[Len(handed)]) :
               handed[Len(handed)][i] \notin HeldIds(last_op.before)
    /\ \A c1, c2 \in collection : c1.chunk_id = c2.chunk_id => c1 = c2

(***************************************************************************)
(* Properties of the store beside the two services (specification          *)
(* SpecFrame)                                                              *)
(***************************************************************************)
\* C23: no step of process_documents and no step of process_query changes
\* the records the vector store holds, whether the operation goes on,
\* returns or raises.
C23_StoreUntouched == [][collection' = collection]_vars

\* process_documents returned chunks, or process_query queried the store
\* and ended, beside a store that holds a record
C23_Witness ==
    /\ collection # {}
    /\ \/ pd_pc = "done" /\ pd_result # None /\ pd_result[1] # <<>>
       \/ pc = "done" /\ store_queries # <<>>

(***************************************************************************)
(* Properties of concurrent uploads (specification SpecUpload)             *)
(***************************************************************************)
AllUploadsDone == \A u \in Uploads : up_pc[u] = "done"

\* C30: however the uploads interleave at their suspension points, each
\* ingests the bytes it saved itself, none finds its temporary file removed
\* by another, and once all have finished no temporary file is left.
C30_UploadsKeepTheirOwnFile ==
    /\ \A u \in Uploads :
           up_ingested[u] # None => up_ingested[u] = Some(<<"bytes", u>>)
    /\ \A u \in Uploads : up_pc[u] # "start" => up_ingested[u] # None
    /\ AllUploadsDone => \A path \in TempPaths : temp_files[path] = 0

\* two finished uploads of one file name, the second saved while the first
\* was suspended
C30_Witness ==
    /\ AllUploadsDone
    /\ up_filename[1] = up_filename[2]
    /\ up_handler[1] = "library"
    /\ up_handler[2] = "library"
    /\ up_shared

(***************************************************************************)
(* Properties of add_documents (specification SpecAdd)                     *)
(***************************************************************************)
\* C24: every metadata value add_documents hands to the store is a string,
\* a number or a boolean: None has become the empty string, a scalar is the
\* value it was, a list or a dict has become its string form, and each
\* chunk keeps exactly the keys it had.
C24_MetadataSanitized ==
    a_handed # None =>
        /\ Len(a_handed[1]) = Len(a_batch)
        /\ \A i \in 1..Len(a_batch) :
               LET given == a_batch[i].metadata
                   stored == a_handed[1][i]
               IN  /\ DOMAIN stored = DOMAIN given
                   /\ \A key \in DOMAIN given :
                          /\ stored[key].kind \in MetaScalarKinds
                          /\ given[key].kind = "NoneType" =>
                                 stored[key] = [kind |-> "str", v |-> <<>>]
                          /\ given[key].kind \in MetaScalarKinds =>
                                 stored[key] = given[key]
                          /\ given[key].kind \in {"list", "dict"} =>
                                 /\ stored[key].kind = "str"
                                 /\ stored[key].v = py_str(given[key])
                   /\ "column_headers" \in DOMAIN given =>
                          stored.column_headers.v =
                              <<"[", "'", "a", "'", ",", " ", "'", "b", "'",
                                "]">>

\* a batch handed on whose chunks carry a None, a list, a dict and scalars
C24_Witness ==
    /\ a_handed # None
    /\ Len(a_batch) = 2
    /\ a_batch[1].metadata = METADATA_CSV
    /\ a_batch[2].metadata = METADATA_SCALARS

\* the records add_documents would store for the complete chunks of a batch
BatchRecords(batch) ==
    {sanitized_record(batch[i]) :
        i \in {j \in 1..Len(batch) : ~lacks_key(batch[j])}}

C29_CsvCleanedAsStructured ==
    (csv_rows # <<>> /\ csv_raw_doc # None) =>
        /\ DictGet(csv_raw_doc[1].metadata, "source_type", "absent") = "csv"
        /\ csv_strategy \in {"none", "structured"}
        /\ csv_strategy # "none" =>
               csv_cleaned = Some(clean_structured_text(csv_raw_doc[1].text[1]))

(***************************************************************************)
(* Properties of recursive_split (specification SpecSplit)                 *)
(***************************************************************************)
\* C27: for every text and every positive chunk_size recursive_split
\* returns a list of chunks, each at most chunk_size characters long.
C27_SplitReturnsBoundedChunks ==
    /\ sp_raised = "none"
    /\ sp_result # None =>
           \A i \in 1..Len(sp_result[1]) :
               Len(sp_result[1][i]) <= sp_chunk_size

(***************************************************************************)
(* Properties of clean_text (specification SpecClean)                      *)
(***************************************************************************)
IsNarrative == n_source_type \in NARRATIVE_SOURCE_TYPES

\* C26: clean_text returns a text for every input: the empty string for an
\* empty text whatever the source_type, and for a source_type outside
\* {pdf, txt, docx, image, csv, excel} (the default "narrative" included)
\* the narrative normalization, the same result as for source_type txt.
C26_UnknownTypeCleanedAsTxt ==
    n_cleaned # None =>
        /\ n_text = <<>> => n_cleaned = Some(<<>>)
        /\ n_source_type \notin SourceTypes =>
               /\ n_cleaned = Some(clean_narrative_text(n_text))
               /\ n_cleaned = Some(clean_text(n_text, "txt"))

\* the default source type on a text the two strategies clean differently
C26_Witness ==
    /\ n_source_type = "narrative"
    /\ n_cleaned # None
    /\ n_text # <<>>
    /\ clean_narrative_text(n_text) # clean_structured_text(n_text)

IsStructured == n_source_type \in STRUCTURED_SOURCE_TYPES

\* C11: narrative normalization is idempotent: cleaning a text that
\* clean_text produced, with the same narrative source type, returns it
\* unchanged.
C11_NarrativeIdempotent ==
    (IsNarrative /\ n_recleaned # None) => n_recleaned = n_cleaned

\* a narrative text that the first pass changed and that keeps a line break
C11_Witness ==
    /\ IsNarrative
    /\ n_recleaned # None
    /\ n_cleaned[1] # n_text
    /\ Contains(n_cleaned[1], <<"\n">>)
    /\ Contains(n_cleaned[1], <<" ">>)

\* the maximal runs of non-whitespace characters of s, in order
RECURSIVE Tokens(_, _)
Tokens(s, cur) ==
    IF s = <<>> THEN (IF cur = <<>> THEN <<>> ELSE <<cur>>)
    ELSE IF Head(s) \in Whitespace
    THEN (IF cur = <<>> THEN <<>> ELSE <<cur>>) \o Tokens(Tail(s), <<>>)
    ELSE Tokens(Tail(s), Append(cur, Head(s)))

NoAdjacentWhitespace(s) ==
    \A i \in 1..(Len(s) - 1) :
        ~(s[i] \in Whitespace /\ s[i + 1] \in Whitespace)

Stripped(s) ==
    s = <<>> \/ (s[1] \notin Whitespace /\ s[Len(s)] \notin Whitespace)

C13_NarrativeShape ==
    (IsNarrative /\ n_cleaned # None) =>
        LET out == n_cleaned[1]
        IN  /\ Stripped(out)
            /\ ~Contains(out, <<" ", " ">>)
            /\ \A i \in 1..Len(out) : \A j \in (i + 1)..Len(out) :
                   (out[i] = "\n" /\ out[j] = "\n") =>
                       \E k \in (i + 1)..(j - 1) : out[k] \notin Whitespace
            /\ \A i \in 1..Len(out) :
                   out[i] = "\n" =>
                       (i > 1 /\ out[i - 1] \in BreakPunctuation)

\* a narrative text of which one line break was kept and another one joined
C13_Witness ==
    /\ IsNarrative
    /\ n_cleaned # None
    /\ Contains(n_cleaned[1], <<".", "\n", "a">>)
    /\ Contains(n_text, <<"a", "\n">>)

(***************************************************************************)
(* Properties of chunk_text_by_sentences (specification SpecChunk)         *)
(***************************************************************************)
\* the concatenation of a list of lists
RECURSIVE Flatten(_)
Flatten(lists) ==
    IF lists = <<>> THEN <<>> ELSE Head(lists) \o Flatten(Tail(lists))

\* C10: for a non-empty text the chunks are consecutive non-overlapping
\* windows of the sentence sequence: joined with single spaces they give
\* the sentence sequence back, every chunk but the last holds exactly
\* sentences_per_chunk sentences and the last between 1 and that many.
C10_ChunksPartitionSentences ==
    (c_chunks # None /\ c_text # <<>>) =>
        LET cs == c_chunks[1]
            n  == c_sentences_per_chunk
            ss == sentences_of(c_text)
        IN  /\ cs # <<>>
            /\ join_spaces(cs) = join_spaces(ss)
            /\ sentences_of(join_spaces(cs)) = ss
            /\ Flatten([i \in 1..Len(cs) |-> sentences_of(cs[i])]) = ss
            /\ \A i \in 1..(Len(cs) - 1) : Len(sentences_of(cs[i])) = n
            /\ Len(sentences_of(cs[Len(cs)])) \in 1..n

\* C10 witness: a text of three sentences cut into a full window of two
\* and a last window of one
C10_Witness ==
    /\ c_chunks # None
    /\ c_sentences_per_chunk = 2
    /\ Len(sentences_of(c_text)) = 3
    /\ Len(c_chunks[1]) = 2
    /\ Len(sentences_of(c_chunks[1][2])) = 1

====
